---- MODULE Spec2Model ----
(***************************************************************************)
(* MockMate client: the cookie-backed session context (AuthProvider), the  *)
(* route guard (RouteGuard), the login page (Login.handleSubmit) and the   *)
(* header's sign-out handler (Header.handleLogout) and notification poll,  *)
(* the exam (Community), results and profile pages, and the dashboard's    *)
(* user list with its search box and its chat panel (ChatBox).             *)
(*                                                                         *)
(* React is modelled by its commit cycle.  The state variables hold the    *)
(* values of the last render (what the closures of that render see).  An   *)
(* event handler's state updates are batched and re-rendered inside the    *)
(* handler's action; passive effects run after the commit, before anything *)
(* else renders.  The first commit's effects are flushed child first, and  *)
(* the state they set is queued until the flush is over.                   *)
(***************************************************************************)
EXTENDS Naturals, Sequences, FiniteSets

\* ------------------------------------------------------------- bounds
\* pending redirect timers of the login page kept by the model
MaxTimers == 1

\* timers of one kind a page may have pending at a time
MaxPending == 1

MaxPolls == 2

\* list and search requests the dashboard issues in one run of the model
MaxRequests == 3

\* ---------------------------------------------------------- JS values
\* A JS string is a sequence of tokens; '' is the empty sequence.
Str(x) == <<x>>

Empty == <<>>

Null == [t |-> "null"]

Alice == [t |-> "obj", id |-> "u1", email |-> "a@x.com", username |-> "alice"]

Bob == [t |-> "obj", id |-> "u2", email |-> "b@x.com", username |-> "bob"]

Users == {Alice, Bob}

SyntaxError == [t |-> "SyntaxError"]

\* JSON.stringify of a user object.
Stringify(u) ==
    <<"{", "id", u.id, "email", u.email, "username", u.username, "}">>

NullText == <<"null">>

GarbageText == <<"{", "id">>

\* JSON.parse: the value a text denotes, or SyntaxError when it denotes none.
Parse(s) ==
    IF s = NullText THEN Null
    ELSE IF /\ Len(s) = 8
            /\ s[1] = "{" /\ s[8] = "}"
            /\ s[2] = "id" /\ s[4] = "email" /\ s[6] = "username"
         THEN [t |-> "obj", id |-> s[3], email |-> s[5], username |-> s[7]]
         ELSE SyntaxError

\* JS truthiness of a string, and of an object-or-null value.
Truthy(s) == s # Empty

TruthyVal(v) == v # Null

\* ------------------------------------------------------------- cookies
\* A cookie that does not exist reads as null, which only ever meets a
\* truthiness test: the empty string stands for it.
CookieNames == {"accessToken", "refreshToken", "user"}

getCookie(jar, name) == jar[name]

setCookie(jar, name, value) == [jar EXCEPT ![name] = value]

deleteCookie(jar, name) == [jar EXCEPT ![name] = Empty]

\* cookie contents a page load may find
TokenValues == {Empty, Str("t0")}

UserTexts == {Empty, Stringify(Alice), Stringify(Bob), NullText, GarbageText}

\* --------------------------------------------------------------- paths
Paths == {"/", "/login", "/register", "/landingpage", "/deshboard", "/profile"}

NoPush == "none"

VARIABLES
    cookies,          \* document.cookie: name -> value
    apiUrl,           \* NEXT_PUBLIC_API_BACKEND_URL is set
    pathname,         \* usePathname()
    pushed,           \* target of the navigation router.push started last
    isAuthenticated,  \* AuthProvider state
    user,             \* AuthProvider state
    mounted,          \* RouteGuard state
    rendered,         \* what RouteGuard returned at the last render
    effectDeps,       \* dependencies the guard's effect last ran with
    guardPush,        \* the router.push of the guard's last effect run
    mountPc,          \* position in the first commit's effect flush
    queued,           \* state updates queued during that flush
    loginPc,          \* Login.handleSubmit: idle, fetching, delay
    inflight,         \* the response the pending login request will get
    detached,         \* the Login instance of the running handler is gone
    error,            \* Login state
    success,          \* Login state
    loading,          \* Login state
    timers,           \* pending 1500 ms redirect timers
    ctxCall,          \* the session-context call made last (SpecCtx)
    ex,               \* Community page state
    exRun,            \* Community page: handlers under way and their timers
    srv,              \* what the exam backend has answered so far
    res,              \* Results page state
    prof,             \* Profile page state
    pgRun,            \* Results and Profile pages: handlers under way
    chat,             \* dashboard chat panel (ChatBox) and its timers
    hdr,              \* Header state and its timers
    dash              \* Dashboard page: search box, user list, requests

vars == <<cookies, apiUrl, pathname, pushed, isAuthenticated, user, mounted,
          rendered, effectDeps, guardPush, mountPc, queued, loginPc, inflight,
          detached, error, success, loading, timers, ctxCall,
          ex, exRun, srv, res, prof, pgRun, chat, hdr, dash>>

appVars == <<cookies, apiUrl, pathname, pushed, isAuthenticated, user, mounted,
             rendered, effectDeps, guardPush, mountPc, queued, loginPc,
             inflight, detached, error, success, loading, timers, ctxCall>>

pageVars == <<ex, exRun, srv, res, prof, pgRun>>

pollVars == <<chat, hdr>>

listVars == <<dash>>

routeVars == <<pathname, pushed, mounted, rendered, effectDeps, guardPush>>

sessVars == <<isAuthenticated, user>>

loginVars == <<loginPc, inflight, detached, error, success, loading, timers>>

\* ---------------------------------------------------------- AuthProvider
Anonymous == [isAuthenticated |-> FALSE, user |-> Null]

\* a mount effect that restores nothing
AuthInit_noRestore(jar, sess) == sess

\* The mount effect: the session the cookies give (sess when they give none).
AuthInit(jar, sess) ==
    LET accessToken == getCookie(jar, "accessToken")
        userStr == getCookie(jar, "user")
    IN  IF Truthy(accessToken) /\ Truthy(userStr)
        THEN IF Parse(userStr) = SyntaxError
             THEN sess
             ELSE [isAuthenticated |-> TRUE, user |-> Parse(userStr)]
        ELSE sess

\* setAuth that forgets setUser.
setAuth_noUser(userData) ==
    [isAuthenticated |-> userData # Null, user |-> Null]

setAuth(userData) ==
    [isAuthenticated |-> userData # Null, user |-> userData]

\* logout that also deletes the three cookies.
logout_clearsCookies(jar) ==
    [cookies |-> [n \in CookieNames |-> Empty],
     isAuthenticated |-> FALSE, user |-> Null]

\* logout(): the cookie jar it is called with, and the session it leaves.
logout(jar) ==
    [cookies |-> jar, isAuthenticated |-> FALSE, user |-> Null]

\* ------------------------------------------------------------ RouteGuard
\* the allow-list without the landing page
publicRoutes_noLanding == {"/login", "/register", "/"}

\* the allow-list without '/login'
publicRoutes_noLogin == {"/register", "/", "/landingpage"}

publicRoutes == {"/login", "/register", "/", "/landingpage"}

\* the auth-only test that forgets '/register'
isAuthRoute_loginOnly(path) == path = "/login"

isAuthRoute(path) == path = "/login" \/ path = "/register"

\* the effect without its `if (!mounted) return`
GuardEffectPush_noMountCheck(isMounted, auth, path) ==
    IF auth /\ (path = "/login" \/ path = "/register") THEN "/deshboard"
    ELSE IF ~auth /\ path \notin {"/login", "/register", "/", "/landingpage"}
         THEN "/login" ELSE NoPush

\* The second effect: the path it pushes, if any.  The two tests run one
\* after the other, so a later push would replace an earlier one.
GuardEffectPush(isMounted, auth, path) ==
    IF ~isMounted THEN NoPush
    ELSE LET first == IF ~auth /\ path \notin publicRoutes
                      THEN "/login" ELSE NoPush
         IN  IF auth /\ isAuthRoute(path) THEN "/deshboard" ELSE first

\* the render without its test of an anonymous session on a protected path
GuardRender_noAnonCheck(isMounted, auth, path) ==
    IF ~isMounted THEN "null"
    ELSE IF auth /\ (path = "/login" \/ path = "/register") THEN "null"
    ELSE "children"

\* The render: null or the children.
GuardRender(isMounted, auth, path) ==
    IF ~isMounted THEN "null"
    ELSE IF ~auth /\ path \notin publicRoutes THEN "null"
    ELSE IF auth /\ isAuthRoute(path) THEN "null"
    ELSE "children"

Deps == <<isAuthenticated, pathname, mounted>>

NoDeps == <<>>

EffectPending == effectDeps # Deps

\* Nothing else renders before the effects of the last commit have run.
Settled == mountPc = "done" /\ ~EffectPending

\* ------------------------------------------------------------ Login page
\* The Login page is the guard's child on '/login'.
ShownIn(r, path) == r = "children" /\ path = "/login"

LoginShown == mountPc = "done" /\ ShownIn(rendered, pathname)

\* A state slice of the Login instance after a render: lost when the
\* instance is unmounted, written only by the handler of a living instance.
View(shownNext, attached, old, new, initial) ==
    IF ~shownNext THEN initial ELSE IF attached THEN new ELSE old

ExcerptLen == 200

BodyLens == {0, 3, ExcerptLen, ExcerptLen + 1}

Body(n) == [i \in 1..n |-> IF i % 3 = 0 THEN "c" ELSE IF i % 3 = 1 THEN "a" ELSE "b"]

Min(a, b) == IF a < b THEN a ELSE b

\* String.prototype.substring(from, to), 0 <= from <= to.
Substring(s, from, to) == SubSeq(s, from + 1, Min(to, Len(s)))

NoData == Null

DataShapes ==
    [user : {Null, Alice}, accessToken : {Empty, Str("t1")},
     refreshToken : {Empty, Str("t2")}]

FullData ==
    [user |-> Alice, accessToken |-> Str("t1"), refreshToken |-> Str("t2")]

Resp(k, st, tx, msg, d) ==
    [kind |-> k, status |-> st, text |-> tx, message |-> msg, data |-> d]

NoResp == Resp("none", "0", Empty, Empty, NoData)

\* What the login request may come back with: fetch rejecting, a body that
\* is not declared JSON, a JSON body that does not parse, an error envelope,
\* a success envelope with or without its parts.
Responses ==
    {Resp("reject", "0", Empty, Empty, NoData)}
    \cup {Resp("text", st, Body(n), Empty, NoData) :
            st \in {"200", "502"}, n \in BodyLens}
    \cup {Resp("badjson", st, Empty, Empty, NoData) : st \in {"200", "500"}}
    \cup {Resp("json", "401", Empty, msg, d) :
            msg \in {Empty, Str("Invalid credentials")}, d \in {NoData, FullData}}
    \cup {Resp("json", "200", Empty, Str("Login successful"), d) :
            d \in {NoData} \cup DataShapes}

\* response.ok taken for granted
ResponseOk_always(resp) == TRUE

ResponseOk(resp) == resp.status \in {"200", "201"}

NoUrlMessage == Str("API backend URL is not configured. Please set NEXT_PUBLIC_API_BACKEND_URL in your .env file")

NonJsonMessage(resp) ==
    <<"API returned non-JSON response (Status: ", resp.status, "). ",
      "URL: ", "/api/login", ". ", "Response: ">>
    \o Substring(resp.text, 0, ExcerptLen)

SuccessMessage == Str("Login successful! Redirecting...")

Thrown(msg, jar, sess) ==
    [ok |-> FALSE, error |-> msg, cookies |-> jar, session |-> sess]

\* handleSubmit from the end of the fetch to its next await or its throw:
\* what it throws, or the cookies and the session it leaves.
ProcessResponse(resp, jar, sess) ==
    IF resp.kind = "reject" THEN Thrown(Str("Failed to fetch"), jar, sess)
    ELSE IF resp.kind = "text" THEN Thrown(NonJsonMessage(resp), jar, sess)
    ELSE IF resp.kind = "badjson"
         THEN Thrown(Str("Unexpected token < in JSON"), jar, sess)
    ELSE IF ~ResponseOk(resp)
         THEN Thrown(IF Truthy(resp.message) THEN resp.message
                     ELSE Str("Login failed"), jar, sess)
    ELSE LET d == resp.data
             jar1 == IF d # NoData /\ Truthy(d.accessToken)
                     THEN setCookie(jar, "accessToken", d.accessToken) ELSE jar
             jar2 == IF d # NoData /\ Truthy(d.refreshToken)
                     THEN setCookie(jar1, "refreshToken", d.refreshToken) ELSE jar1
             jar3 == IF d # NoData /\ TruthyVal(d.user)
                     THEN setCookie(jar2, "user", Stringify(d.user)) ELSE jar2
             sess1 == IF d # NoData /\ TruthyVal(d.user)
                      THEN setAuth(d.user) ELSE sess
         IN  [ok |-> TRUE, error |-> Empty, cookies |-> jar3, session |-> sess1]

\* ------------------------------------------------------ requests on the wire
\* getCookie('accessToken') || getCookie('refreshToken')
Token(jar) ==
    IF Truthy(getCookie(jar, "accessToken")) THEN getCookie(jar, "accessToken")
    ELSE getCookie(jar, "refreshToken")

NoId == "undefined"

\* the cookies a token is read from
TokenNames == {"accessToken", "refreshToken"}

\* What a JSON endpoint may come back with, its success envelope carrying
\* one of the payloads in datas.
JsonResponses(datas) ==
    {Resp("reject", "0", Empty, Empty, NoData)}
    \cup {Resp("badjson", "500", Empty, Empty, NoData)}
    \cup {Resp("json", "400", Empty, msg, NoData) :
            msg \in {Empty, Str("Bad request")}}
    \cup {Resp("json", "200", Empty, Str("OK"), d) : d \in datas}

CallFailed(resp) == resp.kind # "json" \/ ~ResponseOk(resp)

\* The message of the error a handler catches for a response that failed:
\* fetch's own, response.json()'s, or data.message || fallback.
Failure(resp, fallback) ==
    IF resp.kind = "reject" THEN Str("Failed to fetch")
    ELSE IF resp.kind = "badjson" THEN Str("Unexpected token < in JSON")
    ELSE IF Truthy(resp.message) THEN resp.message ELSE Str(fallback)

\* ---------------------------------------------------- Community (exam) page
Questions == {"q1", "q2"}

AllQuestions == <<"q1", "q2">>

ExamIds == {"e1", "e2"}

UxIds == {"x1", "x2"}

\* what a textarea may hold
Texts == {Empty, <<" ">>, Str("essay"), <<" ", "essay", " ">>}

RECURSIVE TrimStart(_)
TrimStart(s) == IF s # Empty /\ Head(s) = " " THEN TrimStart(Tail(s)) ELSE s

RECURSIVE TrimEnd(_)
TrimEnd(s) ==
    IF s # Empty /\ s[Len(s)] = " " THEN TrimEnd(SubSeq(s, 1, Len(s) - 1)) ELSE s

\* String.prototype.trim()
Trim(s) == TrimEnd(TrimStart(s))

\* The component's state at its first render.
ExamInitial ==
    [mounted |-> FALSE, exam |-> Null, userExam |-> Null, userExamId |-> NoId,
     submitting |-> [q \in Questions |-> FALSE], creating |-> TRUE,
     starting |-> FALSE, completing |-> FALSE, error |-> Empty,
     success |-> Empty]

\* The handlers under way, the exam their startExam closes over, and the
\* timers they have set; none of it is lost when the component unmounts.
ExamRunInitial ==
    [createPc |-> "idle", closure |-> Null, startFor |-> NoId,
     sub |-> [q \in Questions |-> NoId], comp |-> NoId,
     redirects |-> 0, clears |-> 0]

\* The backend as the page has seen it: the user-exam ids start has
\* returned and those a complete request has succeeded for.
ServerInitial == [issued |-> {}, completed |-> {}]

CreateResponses ==
    JsonResponses({NoData} \cup
        [id : ExamIds, questions : {<<>>, AllQuestions}])

\* A user-exam id names one attempt: start never returns one twice.
FreshUxIds(issued) ==
    IF "x1" \notin issued THEN {"x1"} ELSE UxIds \ issued

StartResponses(issued) ==
    JsonResponses({NoData} \cup
        [id : FreshUxIds(issued) \cup {NoId},
         exam : {Null, [questions |-> AllQuestions]}])

PlainResponses == JsonResponses({NoData})

ExamNoUrlMessage == Str("API backend URL is not configured")

CreateLoginMessage == Str("You must be logged in to create an exam")

EnterAnswerMessage == Str("Please enter an answer before submitting")

NoActiveExamMessage == Str("No active exam found")

AnswerSubmittedMessage == Str("Answer submitted successfully!")

ExamCompletedMessage == Str("Exam completed successfully!")

ExamShownIn(r, path) == r = "children" /\ path = "/community"

ExamShown == mountPc = "done" /\ ExamShownIn(rendered, pathname)

\* The page's body is rendered: mounted, and the session authenticated.
ExamBody == ExamShown /\ ex.mounted /\ isAuthenticated

\* A handler's state updates reach a mounted component only.
Write(st) == IF ExamShown THEN st ELSE ex

ErrorShown(st) == Truthy(st.error) /\ ~st.creating /\ ~st.starting

TryAgainShown(st) == ErrorShown(st) /\ st.userExamId = NoId

QuestionsShown(st) ==
    st.userExam # Null /\ st.exam # Null /\ Len(st.exam.questions) > 0

CreateNewShown(st) ==
    st.exam # Null /\ Len(st.exam.questions) = 0 /\ ~st.creating

InList(q, list) == \E i \in 1..Len(list) : list[i] = q

\* a handler whose catch sets no error
Caught_silent(st, resp, fallback) == st

\* The catch block of a handler: setError(err.message).
Caught(st, resp, fallback) == [st EXCEPT !.error = Failure(resp, fallback)]

\* createExam that does not look for the backend URL
createExam_noUrlCheck(st, jar, url) ==
    LET s1 == [st EXCEPT !.creating = TRUE, !.error = Empty]
    IN  IF ~Truthy(Token(jar))
        THEN [state |-> [s1 EXCEPT !.error = CreateLoginMessage, !.creating = FALSE],
              request |-> FALSE]
        ELSE [state |-> s1, request |-> TRUE]

\* createExam up to its fetch: the state it leaves and whether the request
\* is issued.
createExam(st, jar, url) ==
    LET s1 == [st EXCEPT !.creating = TRUE, !.error = Empty]
    IN  IF ~url
        THEN [state |-> [s1 EXCEPT !.error = ExamNoUrlMessage, !.creating = FALSE],
              request |-> FALSE]
        ELSE IF ~Truthy(Token(jar))
        THEN [state |-> [s1 EXCEPT !.error = CreateLoginMessage, !.creating = FALSE],
              request |-> FALSE]
        ELSE [state |-> s1, request |-> TRUE]

\* startExam up to its fetch.
startExam(st, url) ==
    LET s1 == [st EXCEPT !.starting = TRUE, !.error = Empty]
    IN  IF ~url THEN [state |-> [s1 EXCEPT !.starting = FALSE], request |-> FALSE]
        ELSE [state |-> s1, request |-> TRUE]

\* { ...exam!, questions } with the exam the closure holds
Spread(closure, questions) ==
    [id |-> IF closure = Null THEN NoId ELSE closure.id, questions |-> questions]

\* startExam that keeps the exam's id for the user exam's
startExamSettle_examId(st, closure, resp) ==
    IF CallFailed(resp)
    THEN [Caught(st, resp, "Failed to start exam") EXCEPT !.starting = FALSE]
    ELSE IF resp.data = NoData THEN [st EXCEPT !.starting = FALSE]
    ELSE [st EXCEPT !.userExam = [id |-> resp.data.id],
                    !.userExamId = st.exam.id,
                    !.exam = IF resp.data.exam # Null
                             THEN Spread(closure, resp.data.exam.questions)
                             ELSE @,
                    !.starting = FALSE]

\* startExam from the end of its fetch.
startExamSettle(st, closure, resp) ==
    IF CallFailed(resp)
    THEN [Caught(st, resp, "Failed to start exam") EXCEPT !.starting = FALSE]
    ELSE IF resp.data = NoData THEN [st EXCEPT !.starting = FALSE]
    ELSE [st EXCEPT !.userExam = [id |-> resp.data.id],
                    !.userExamId = resp.data.id,
                    !.exam = IF resp.data.exam # Null
                             THEN Spread(closure, resp.data.exam.questions)
                             ELSE @,
                    !.starting = FALSE]

\* createExam from the end of its fetch, for a response that leaves it
\* nothing to start.
createExamSettle(st, resp) ==
    IF CallFailed(resp)
    THEN [Caught(st, resp, "Failed to create exam") EXCEPT !.creating = FALSE]
    ELSE [st EXCEPT !.creating = FALSE]

\* The questions are on the page and a user-exam id is held.
InProgress(st) == QuestionsShown(st) /\ st.userExamId # NoId

\* submitAnswer without its test of the answer
submitAnswer_noTrimCheck(st, q, answerText, url) ==
    IF st.userExamId = NoId
    THEN [state |-> [st EXCEPT !.error = EnterAnswerMessage], request |-> FALSE]
    ELSE LET s1 == [st EXCEPT !.submitting[q] = TRUE, !.error = Empty,
                              !.success = Empty]
         IN  IF ~url THEN [state |-> [s1 EXCEPT !.submitting[q] = FALSE],
                           request |-> FALSE]
             ELSE [state |-> s1, request |-> TRUE]

\* submitAnswer up to its fetch.
submitAnswer(st, q, answerText, url) ==
    IF st.userExamId = NoId \/ ~Truthy(Trim(answerText))
    THEN [state |-> [st EXCEPT !.error = EnterAnswerMessage], request |-> FALSE]
    ELSE LET s1 == [st EXCEPT !.submitting[q] = TRUE, !.error = Empty,
                              !.success = Empty]
         IN  IF ~url THEN [state |-> [s1 EXCEPT !.submitting[q] = FALSE],
                           request |-> FALSE]
             ELSE [state |-> s1, request |-> TRUE]

\* submitAnswer from the end of its fetch.
submitAnswerSettle(st, q, resp) ==
    IF CallFailed(resp)
    THEN [Caught(st, resp, "Failed to submit answer")
             EXCEPT !.submitting[q] = FALSE]
    ELSE [st EXCEPT !.success = AnswerSubmittedMessage, !.submitting[q] = FALSE]

\* completeExam without its test of the user-exam id
completeExam_noIdCheck(st, url) ==
    LET s1 == [st EXCEPT !.completing = TRUE, !.error = Empty]
    IN  IF ~url THEN [state |-> [s1 EXCEPT !.completing = FALSE],
                      request |-> FALSE]
        ELSE [state |-> s1, request |-> TRUE]

\* completeExam up to its fetch.
completeExam(st, url) ==
    IF st.userExamId = NoId
    THEN [state |-> [st EXCEPT !.error = NoActiveExamMessage], request |-> FALSE]
    ELSE LET s1 == [st EXCEPT !.completing = TRUE, !.error = Empty]
         IN  IF ~url THEN [state |-> [s1 EXCEPT !.completing = FALSE],
                           request |-> FALSE]
             ELSE [state |-> s1, request |-> TRUE]

\* a handler whose catch leaves completing raised
completeExamSettle_noFinally(st, resp) ==
    IF CallFailed(resp)
    THEN Caught(st, resp, "Failed to complete exam")
    ELSE [st EXCEPT !.success = ExamCompletedMessage, !.completing = FALSE]

\* completeExam from the end of its fetch.
completeExamSettle(st, resp) ==
    IF CallFailed(resp)
    THEN [Caught(st, resp, "Failed to complete exam") EXCEPT !.completing = FALSE]
    ELSE [st EXCEPT !.success = ExamCompletedMessage, !.completing = FALSE]

\* ------------------------------------------------------------ Results page
ResultExcerptLen == 100

ResultsInitial ==
    [mounted |-> FALSE, results |-> Null, loading |-> TRUE, error |-> Empty]

ResultsShownIn(r, path) == r = "children" /\ path = "/result"

ResultsShown == mountPc = "done" /\ ResultsShownIn(rendered, pathname)

ResultsLoginMessage == Str("You must be logged in to view results")

ResultsResponses ==
    JsonResponses({NoData, [user_id |-> "u1"]})
    \cup {Resp("text", "502", Body(n), Empty, NoData) :
            n \in {3, ResultExcerptLen + 1}}

\* fetchResults up to its fetch.
fetchResults(st, jar, url) ==
    LET s1 == [st EXCEPT !.loading = TRUE, !.error = Empty]
    IN  IF ~url
        THEN [state |-> [s1 EXCEPT !.error = ExamNoUrlMessage, !.loading = FALSE],
              request |-> FALSE]
        ELSE IF ~Truthy(Token(jar))
        THEN [state |-> [s1 EXCEPT !.error = ResultsLoginMessage,
                                   !.loading = FALSE],
              request |-> FALSE]
        ELSE [state |-> s1, request |-> TRUE]

\* fetchResults from the end of its fetch.
fetchResultsSettle(st, resp) ==
    IF resp.kind = "text"
    THEN [st EXCEPT !.error = <<"API returned non-JSON response: ">>
                                  \o Substring(resp.text, 0, ResultExcerptLen),
                    !.loading = FALSE]
    ELSE IF CallFailed(resp)
    THEN [Caught(st, resp, "Failed to fetch results") EXCEPT !.loading = FALSE]
    ELSE IF resp.data # NoData
    THEN [st EXCEPT !.results = resp.data, !.loading = FALSE]
    ELSE [st EXCEPT !.error = Str("Invalid response format"), !.loading = FALSE]

\* ------------------------------------------------------------ Profile page
\* The avatar URLs the backend may hold for the profile.
AvatarUrls == {"u1", "u2"}

\* avatar is whether a file is chosen; avatarPreview is "null", "data" (the
\* chosen file's data URL) or an avatar URL; existingAvatarUrl is "null" or
\* an avatar URL.
ProfileInitial ==
    [mounted |-> FALSE, error |-> Empty, success |-> Empty, loading |-> FALSE,
     loadingProfile |-> TRUE, avatar |-> FALSE, avatarPreview |-> "null",
     existingAvatarUrl |-> "null"]

ProfileShownIn(r, path) == r = "children" /\ path = "/profile"

ProfileShown == mountPc = "done" /\ ProfileShownIn(rendered, pathname)

\* decodeToken of '@/utils/cookies': the payload of a token, null for none.
decodeToken(token) == IF Truthy(token) THEN [userId |-> "u1"] ELSE Null

\* fetchProfileData issues its request.
ProfileFetchIssued(jar, url) ==
    url /\ Truthy(Token(jar)) /\ decodeToken(Token(jar)) # Null

ProfileResponses ==
    JsonResponses({NoData, [avatar_url |-> "null"]}
                  \cup {[avatar_url |-> u] : u \in AvatarUrls})

\* fetchProfileData after its fetch: a profile in the response sets the
\* avatar URL and the preview, or clears both.
fetchProfileDataSettle(st, resp) ==
    IF CallFailed(resp) \/ resp.data = NoData THEN st
    ELSE [st EXCEPT !.existingAvatarUrl = resp.data.avatar_url,
                    !.avatarPreview = resp.data.avatar_url]

\* handleAvatarChange for a file of the kind given, with the preview its
\* FileReader brings.
handleAvatarChange(st, file) ==
    IF file = "other" THEN [st EXCEPT !.error = Str("Please select an image file")]
    ELSE IF file = "large"
    THEN [st EXCEPT !.error = Str("Image size should be less than 5MB")]
    ELSE [st EXCEPT !.avatar = TRUE, !.error = Empty, !.avatarPreview = "data"]

\* The callback of the 2000 ms timer, with the existingAvatarUrl of the
\* render handleSubmit was called from.
cleanUp(st, closure) ==
    [st EXCEPT !.success = Empty, !.avatar = FALSE,
               !.avatarPreview = IF closure.existingAvatarUrl = "null"
                                 THEN "null" ELSE @]

\* handleSubmit up to its fetch.
handleSubmit(st, jar, url, ctxUser) ==
    LET s1 == [st EXCEPT !.error = Empty, !.success = Empty, !.loading = TRUE]
        thrown(msg) == [state |-> [s1 EXCEPT !.error = Str(msg), !.loading = FALSE],
                        request |-> FALSE]
    IN  IF ~url THEN thrown("API backend URL is not configured")
        ELSE IF ~Truthy(Token(jar))
        THEN IF ctxUser = Null
             THEN thrown("You must be logged in to update your profile. Please login again.")
             ELSE thrown("Session expired. Please login again.")
        ELSE IF decodeToken(Token(jar)) = Null
        THEN thrown("Invalid token. Please login again.")
        ELSE [state |-> s1, request |-> TRUE]

\* The handlers of the results and profile pages under way.
PageRunInitial ==
    [results |-> "idle", profileLoad |-> "idle", profileSubmit |-> "idle",
     profileTimers |-> <<>>,
     closure |-> [existingAvatarUrl |-> "null", avatar |-> FALSE]]

\* ------------------------------------------------------- dashboard chat
Receivers == {"bob", "carol"}

NoUser == "none"

NoTimer == "none"

\* The message list a response brought: whose conversation, whether it has
\* rows, and whether a request issued later had been answered already.
NoMessages == [receiver |-> NoUser, rows |-> FALSE, overtaken |-> FALSE]

\* ChatBox state and the dashboard's chatOpen and selectedUser; with them the
\* interval timer of the panel (the receiver its callback fetches for), the
\* message fetches under way in the order they were issued, and the call of
\* fetchMessages made last.  A fetch under way is live while the ChatBox
\* that issued it is mounted, and overtaken once the response to a later
\* fetch has been taken.
ChatInitial ==
    [chatOpen |-> FALSE, selectedUser |-> NoUser, messages |-> NoMessages,
     loading |-> FALSE, sending |-> FALSE, interval |-> NoTimer,
     fetching |-> <<>>, posting |-> NoUser, marked |-> NoUser,
     calls |-> FALSE, origin |-> "none", receiver |-> NoUser]

\* The fetches under way for receiver r.
Fetching(st, r) ==
    Cardinality({i \in 1..Len(st.fetching) : st.fetching[i].receiver = r})

\* A page load: ChatBox is constructed anew (the count of calls made goes on).
ChatReload(st) == [ChatInitial EXCEPT !.calls = st.calls]

DashShownIn(r, path) == r = "children" /\ path = "/deshboard"

DashShown == mountPc = "done" /\ DashShownIn(rendered, pathname)

\* fetchMessages up to its fetch, called for receiver r by the effect or by
\* a tick of the timer.
fetchMessages(st, r, origin, url) ==
    LET s1 == [st EXCEPT !.calls = ~@, !.origin = origin, !.receiver = r,
                         !.loading = (st.selectedUser # NoUser)]
    IN  IF ~url THEN [s1 EXCEPT !.loading = FALSE]
        ELSE [s1 EXCEPT !.fetching =
                  Append(@, [receiver |-> r, live |-> TRUE, overtaken |-> FALSE,
                             send |-> FALSE])]

\* markAsRead: the receiver's messages are marked on the backend.
markAsRead(st, r, url) == IF ~url THEN st ELSE [st EXCEPT !.marked = r]

\* an effect whose cleanup leaves the timer running
ChatCleanup_leak(timer) == timer

\* The effect's cleanup: clearInterval(interval).
ChatCleanup(timer) == NoTimer

\* The effect on [isOpen, receiverId], after a render that changed them.
ChatEffect(st, url) ==
    LET s1 == [st EXCEPT !.interval = ChatCleanup(@)]
        r == st.selectedUser
    IN  IF st.chatOpen /\ r # NoUser
        THEN [markAsRead(fetchMessages(s1, r, "effect", url), r, url)
                 EXCEPT !.interval = r]
        ELSE s1

\* A fetch whose ChatBox has been unmounted: its response sets nothing.
Detached ==
    [receiver |-> NoUser, live |-> FALSE, overtaken |-> FALSE, send |-> FALSE]

\* an unmount that aborts the fetches under way
ChatUnmount_aborts(st) ==
    [st EXCEPT !.chatOpen = FALSE, !.selectedUser = NoUser,
               !.messages = NoMessages, !.loading = FALSE,
               !.sending = FALSE, !.posting = NoUser,
               !.interval = ChatCleanup(@),
               !.fetching = <<>>]

\* The dashboard page goes: ChatBox unmounts with it.
ChatUnmount(st) ==
    [st EXCEPT !.chatOpen = FALSE, !.selectedUser = NoUser,
               !.messages = NoMessages, !.loading = FALSE,
               !.sending = FALSE, !.posting = NoUser,
               !.interval = ChatCleanup(@),
               !.fetching = [i \in 1..Len(@) |-> Detached]]

RemoveAt(seq, i) == SubSeq(seq, 1, i - 1) \o SubSeq(seq, i + 1, Len(seq))

\* data.data?.messages || data.messages || data || [], kept if an array.
MessageList(entry, resp) ==
    [receiver |-> entry.receiver, rows |-> resp.data # NoData,
     overtaken |-> entry.overtaken]

\* fetchMessages that drops a response a later fetch has overtaken
fetchMessagesSettle_newestOnly(st, i, resp) ==
    LET entry == st.fetching[i]
        took == entry.live /\ ~CallFailed(resp) /\ ~entry.overtaken
        rest == RemoveAt(st.fetching, i)
    IN  IF ~entry.live THEN [st EXCEPT !.fetching = rest]
        ELSE [st EXCEPT
                !.fetching = [j \in 1..Len(rest) |->
                                IF took /\ j < i
                                THEN [rest[j] EXCEPT !.overtaken = TRUE]
                                ELSE rest[j]],
                !.messages = IF took THEN MessageList(entry, resp) ELSE @,
                !.loading = FALSE,
                !.sending = IF entry.send THEN FALSE ELSE @]

\* fetchMessages after its fetch, for the i-th fetch under way: a response
\* that is ok replaces the list, and finally setLoading(false); on a ChatBox
\* that has been unmounted both do nothing.
fetchMessagesSettle(st, i, resp) ==
    LET entry == st.fetching[i]
        took == entry.live /\ ~CallFailed(resp)
        rest == RemoveAt(st.fetching, i)
    IN  IF ~entry.live THEN [st EXCEPT !.fetching = rest]
        ELSE [st EXCEPT
                !.fetching = [j \in 1..Len(rest) |->
                                IF took /\ j < i
                                THEN [rest[j] EXCEPT !.overtaken = TRUE]
                                ELSE rest[j]],
                !.messages = IF took THEN MessageList(entry, resp) ELSE @,
                !.loading = FALSE,
                !.sending = IF entry.send THEN FALSE ELSE @]

MessageResponses == JsonResponses({NoData, [messages |-> "list"]})

\* sendMessage up to its fetch, for the text in the input: posting holds the
\* receiverId of the render it was called from.
sendMessage(st, message, url) ==
    IF Trim(message) = Empty \/ st.sending THEN st
    ELSE IF ~url THEN [st EXCEPT !.sending = FALSE]
    ELSE [st EXCEPT !.sending = TRUE, !.posting = st.selectedUser]

\* sendMessage after its fetch: a response that is ok is followed by
\* fetchMessages(), awaited before finally setSending(false).
sendMessageSettle(st, resp, url) ==
    LET s1 == [st EXCEPT !.posting = NoUser]
    IN  IF CallFailed(resp) THEN [s1 EXCEPT !.sending = FALSE]
        ELSE LET s2 == fetchMessages(s1, st.posting, "send", url)
             IN  [s2 EXCEPT !.fetching[Len(s2.fetching)].send = TRUE]

\* ------------------------------------------------- Header notifications
\* Header state; with it the dependencies its notification effect ran with
\* last, its interval timer, the checks under way, and the call of
\* checkNotifications made last.
HeaderInitial ==
    [mounted |-> FALSE, hasNotification |-> FALSE, deps |-> <<FALSE, FALSE>>,
     interval |-> NoTimer, checking |-> 0, calls |-> FALSE,
     origin |-> "none"]

\* A page load: Header is constructed anew (the count of calls made goes on).
HeaderReload(st) == [HeaderInitial EXCEPT !.calls = st.calls]

HeaderDeps == <<isAuthenticated, hdr.mounted>>

HeaderEffectPending == hdr.deps # HeaderDeps

\* checkNotifications up to its fetch.
checkNotifications(st, origin, jar, url) ==
    LET s1 == [st EXCEPT !.calls = ~@, !.origin = origin]
    IN  IF ~url THEN s1
        ELSE IF ~Truthy(Token(jar)) THEN s1
        ELSE [s1 EXCEPT !.checking = @ + 1]

\* an effect whose cleanup leaves the timer running
NotificationCleanup_leak(timer) == timer

\* The effect's cleanup: clearInterval(interval).
NotificationCleanup(timer) == NoTimer

\* The effect on [isAuthenticated, mounted], after a render that changed them.
NotificationEffect(st, auth, jar, url) ==
    LET s1 == [st EXCEPT !.interval = NotificationCleanup(@),
                         !.deps = <<auth, st.mounted>>]
    IN  IF ~auth \/ ~st.mounted THEN s1
        ELSE [checkNotifications(s1, "effect", jar, url)
                 EXCEPT !.interval = "notifications"]

NotificationResponses ==
    JsonResponses({NoData, [has_unread_chats |-> TRUE],
                   [has_unread_chats |-> FALSE]})

\* responseData.data?.has_unread_chats === true
HasUnread(resp) == resp.data # NoData /\ resp.data.has_unread_chats

\* checkNotifications after its fetch, for one of the checks under way
\* (which one does not show: the flag comes with the response).  A response
\* that is ok sets the flag.
checkNotificationsSettle(st, resp) ==
    [st EXCEPT !.checking = @ - 1,
               !.hasNotification = IF CallFailed(resp) THEN @
                                   ELSE HasUnread(resp)]

\* ------------------------------------------------- dashboard user list
\* What the search box may hold.
Queries == {Empty, Str(" "), Str("a")}

\* The request a content of the search box stands for: /api/search with the
\* query as typed when it has more than whitespace, /api/users otherwise.
UsersTarget == [kind |-> "users", query |-> Empty]

SearchTarget(query) == [kind |-> "search", query |-> query]

NoTarget == [kind |-> "none", query |-> Empty]

TargetOf(query) ==
    IF Trim(query) # Empty THEN SearchTarget(query) ELSE UsersTarget

\* The list on display: the request whose response it is (n counts the
\* requests in the order they were issued) and whether it has rows.
NoList == [n |-> 0, target |-> NoTarget, rows |-> FALSE]

NoDebounce == [set |-> FALSE, query |-> Empty]

\* Dashboard state (followingStatus for the one other user of the model),
\* the debounce timer with the query its callback closed over, the list and
\* search requests under way, the follow requests under way with the
\* searchQuery of the render they were made from, and the count of list and
\* search requests issued.
DashInitial ==
    [mounted |-> FALSE, searchQuery |-> Empty, users |-> NoList,
     followingStatus |-> "undefined", loading |-> TRUE,
     timer |-> NoDebounce, requests |-> <<>>, follows |-> <<>>, issued |-> 0]

\* fetchUsers and searchUsers up to their fetch.
SendList(st, target, url) ==
    IF ~url THEN [st EXCEPT !.loading = FALSE]
    ELSE [st EXCEPT !.loading = TRUE, !.issued = @ + 1,
                    !.requests = Append(@, [n |-> st.issued + 1,
                                            target |-> target])]

fetchUsers(st, url) == SendList(st, UsersTarget, url)

searchUsers(st, query, url) == SendList(st, SearchTarget(query), url)

\* The debounce effect on [searchQuery, mounted]: the cleanup of the effect
\* before clears its timeout, and a mounted page sets a new one.
DebounceEffect(st) ==
    [st EXCEPT !.timer = IF st.mounted
                         THEN [set |-> TRUE, query |-> st.searchQuery]
                         ELSE NoDebounce]

\* The timeout's callback.
DebounceFire(st, url) ==
    LET s1 == [st EXCEPT !.timer = NoDebounce]
        q == st.timer.query
    IN  IF Trim(q) # Empty THEN searchUsers(s1, q, url) ELSE fetchUsers(s1, url)

UserResponses ==
    JsonResponses({NoData} \cup
                  {[users |-> "list", is_following |-> b] : b \in BOOLEAN})

\* statuses[user.id] = user.is_following || false, for the users listed.
Statuses(resp) ==
    IF resp.data = NoData THEN "undefined"
    ELSE IF resp.data.is_following THEN "true" ELSE "false"

\* fetchUsers and searchUsers after their fetch, for request i under way: an
\* ok response sets the list and the statuses, whichever request it answers.
fetchUsersSettle(st, i, resp) ==
    LET e == st.requests[i]
        s1 == [st EXCEPT !.requests = RemoveAt(@, i), !.loading = FALSE]
    IN  IF CallFailed(resp) THEN s1
        ELSE [s1 EXCEPT !.users = [n |-> e.n, target |-> e.target,
                                   rows |-> resp.data # NoData],
                        !.followingStatus = Statuses(resp)]

\* handleFollow and handleUnfollow after their fetch, for the follow request
\* under way: an ok response sets the status and refreshes the list for the
\* searchQuery of the render the handler was made from.
handleFollowSettle(st, resp, url) ==
    LET f == Head(st.follows)
        s1 == [st EXCEPT !.follows = Tail(@)]
    IN  IF CallFailed(resp) THEN s1
        ELSE LET s2 == [s1 EXCEPT !.followingStatus =
                                      IF f.follow THEN "true" ELSE "false"]
             IN  IF Trim(f.query) # Empty THEN searchUsers(s2, f.query, url)
                 ELSE fetchUsers(s2, url)

\* -------------------------------------------------------------- initial
\* A page load on path p with the cookie jar and the build's configuration:
\* the server-rendered tree, nothing mounted yet.
Loaded(jar, url, p) ==
    /\ cookies = jar
    /\ apiUrl = url
    /\ pathname = p
    /\ pushed = NoPush
    /\ isAuthenticated = FALSE
    /\ user = Null
    /\ mounted = FALSE
    /\ rendered = GuardRender(FALSE, FALSE, p)
    /\ effectDeps = NoDeps
    /\ guardPush = NoPush
    /\ mountPc = "guardMount"
    /\ queued = [mounted |-> FALSE, session |-> Anonymous]
    /\ loginPc = "idle"
    /\ inflight = NoResp
    /\ detached = FALSE
    /\ error = Empty
    /\ success = Empty
    /\ loading = FALSE
    /\ timers = 0
    /\ ctxCall = "none"
    /\ ex = ExamInitial
    /\ exRun = ExamRunInitial
    /\ srv = ServerInitial
    /\ res = ResultsInitial
    /\ prof = ProfileInitial
    /\ pgRun = PageRunInitial
    /\ chat = ChatInitial
    /\ hdr = HeaderInitial
    /\ dash = DashInitial

Init ==
    \E a \in TokenValues, r \in TokenValues, u \in UserTexts, url \in BOOLEAN,
       p \in Paths :
        Loaded([accessToken |-> a, refreshToken |-> r, user |-> u], url, p)

\* ------------------------------------------------- first commit's effects
\* RouteGuard's first effect: setMounted(true).
GuardMountEffect ==
    /\ mountPc = "guardMount"
    /\ queued' = [queued EXCEPT !.mounted = TRUE]
    /\ mountPc' = "guardEffect"
    /\ UNCHANGED <<cookies, apiUrl, routeVars, sessVars, loginVars, ctxCall>>
    /\ UNCHANGED <<pageVars, pollVars, listVars>>

\* RouteGuard's second effect, run after a commit that changed its deps.
GuardEffect ==
    /\ mountPc \in {"guardEffect", "done"}
    /\ EffectPending
    /\ guardPush' = GuardEffectPush(mounted, isAuthenticated, pathname)
    /\ pushed' = IF guardPush' # NoPush THEN guardPush' ELSE pushed
    /\ effectDeps' = Deps
    /\ mountPc' = IF mountPc = "guardEffect" THEN "authInit" ELSE mountPc
    /\ UNCHANGED <<cookies, apiUrl, pathname, mounted, rendered, sessVars,
                   queued, loginVars, ctxCall>>
    /\ UNCHANGED <<pageVars, pollVars, listVars>>

\* AuthProvider's effect (a parent's effect runs after its children's).
AuthInitEffect ==
    /\ mountPc = "authInit"
    /\ queued' = [queued EXCEPT !.session = AuthInit(cookies, queued.session)]
    /\ mountPc' = "commit"
    /\ UNCHANGED <<cookies, apiUrl, routeVars, sessVars, loginVars, ctxCall>>
    /\ UNCHANGED <<pageVars, pollVars, listVars>>

\* The queued updates are applied in one render.
CommitQueued ==
    /\ mountPc = "commit"
    /\ mounted' = queued.mounted
    /\ isAuthenticated' = queued.session.isAuthenticated
    /\ user' = queued.session.user
    /\ rendered' = GuardRender(mounted', isAuthenticated', pathname)
    /\ mountPc' = "done"
    /\ UNCHANGED <<cookies, apiUrl, pathname, pushed, effectDeps, guardPush,
                   queued, loginVars, ctxCall>>
    /\ UNCHANGED <<pageVars, pollVars, listVars>>

\* ------------------------------------------------------------ navigation
\* A render that may unmount the Login instance: its state is lost, and a
\* handler still running is left without an instance to write to.
Rerender(auth, path) ==
    /\ rendered' = GuardRender(mounted, auth, path)
    /\ error' = View(ShownIn(rendered', path), FALSE, error, error, Empty)
    /\ success' = View(ShownIn(rendered', path), FALSE, success, success, Empty)
    /\ loading' = View(ShownIn(rendered', path), FALSE, loading, loading, FALSE)
    /\ detached' = (loginPc # "idle" /\ (detached \/ ~ShownIn(rendered', path)))

\* A link is followed: a client-side navigation starts.
Navigate(p) ==
    /\ Settled
    /\ pushed' = p
    /\ UNCHANGED <<cookies, apiUrl, pathname, mounted, rendered, effectDeps,
                   guardPush, sessVars, mountPc, queued, loginVars, ctxCall>>
    /\ UNCHANGED <<pageVars, pollVars, listVars>>

\* The navigation started last completes.
NavCommit ==
    /\ Settled
    /\ pushed # NoPush
    /\ pathname' = pushed
    /\ pushed' = NoPush
    /\ Rerender(isAuthenticated, pathname')
    /\ ex' = IF ExamShownIn(rendered', pathname') THEN ex ELSE ExamInitial
    /\ res' = IF ResultsShownIn(rendered', pathname') THEN res ELSE ResultsInitial
    /\ prof' = IF ProfileShownIn(rendered', pathname') THEN prof ELSE ProfileInitial
    /\ UNCHANGED <<cookies, apiUrl, mounted, effectDeps, guardPush, sessVars,
                   mountPc, queued, loginPc, inflight, timers, ctxCall>>
    /\ chat' = IF DashShownIn(rendered', pathname') THEN chat ELSE ChatUnmount(chat)
    /\ dash' = IF DashShownIn(rendered', pathname') THEN dash ELSE DashInitial
    /\ UNCHANGED <<exRun, srv, pgRun, hdr>>

\* The document is loaded anew: memory is lost, the cookies stay.
PageLoad(p) ==
    /\ mountPc = "done"
    /\ pathname' = p
    /\ pushed' = NoPush
    /\ isAuthenticated' = FALSE
    /\ user' = Null
    /\ mounted' = FALSE
    /\ rendered' = GuardRender(FALSE, FALSE, p)
    /\ effectDeps' = NoDeps
    /\ guardPush' = NoPush
    /\ mountPc' = "guardMount"
    /\ queued' = [mounted |-> FALSE, session |-> Anonymous]
    /\ loginPc' = "idle"
    /\ inflight' = NoResp
    /\ detached' = FALSE
    /\ error' = Empty
    /\ success' = Empty
    /\ loading' = FALSE
    /\ timers' = 0
    /\ ex' = ExamInitial
    /\ exRun' = ExamRunInitial
    /\ res' = ResultsInitial
    /\ prof' = ProfileInitial
    /\ pgRun' = PageRunInitial
    /\ chat' = ChatReload(chat)
    /\ hdr' = HeaderReload(hdr)
    /\ dash' = DashInitial
    /\ UNCHANGED <<cookies, apiUrl, ctxCall, srv>>

\* A cookie reaches its expiry date (7 or 30 days) or is removed by hand.
CookieExpire(name) ==
    /\ Truthy(cookies[name])
    /\ cookies' = deleteCookie(cookies, name)
    /\ UNCHANGED <<apiUrl, routeVars, sessVars, mountPc, queued, loginVars,
                   ctxCall>>
    /\ UNCHANGED <<pageVars, pollVars, listVars>>

\* ------------------------------------------------- Login.handleSubmit
\* The form is submitted.  Without a backend URL the handler throws before
\* any await; otherwise the request leaves.
LoginSubmit ==
    /\ Settled
    /\ LoginShown
    /\ loginPc = "idle"
    /\ ~loading
    /\ timers < MaxTimers
    /\ success' = Empty
    /\ IF ~apiUrl
       THEN /\ error' = NoUrlMessage
            /\ loading' = FALSE
            /\ UNCHANGED <<loginPc, inflight>>
       ELSE /\ error' = Empty
            /\ loading' = TRUE
            /\ loginPc' = "fetching"
            /\ inflight' \in Responses
    /\ UNCHANGED <<cookies, apiUrl, routeVars, sessVars, mountPc, queued,
                   detached, timers, ctxCall>>
    /\ UNCHANGED <<pageVars, pollVars, listVars>>

\* The request settles and the handler runs to its throw or to the 100 ms
\* delay.  Its state updates are rendered together.
LoginResponse ==
    /\ Settled
    /\ loginPc = "fetching"
    /\ LET r == ProcessResponse(inflight, cookies,
                    [isAuthenticated |-> isAuthenticated, user |-> user])
           shownNext == ShownIn(GuardRender(mounted, r.session.isAuthenticated,
                                            pathname), pathname)
       IN  /\ cookies' = r.cookies
           /\ isAuthenticated' = r.session.isAuthenticated
           /\ user' = r.session.user
           /\ rendered' = GuardRender(mounted, isAuthenticated', pathname)
           /\ error' = View(shownNext, ~detached /\ ~r.ok, error, r.error, Empty)
           /\ success' = View(shownNext, ~detached /\ r.ok, success,
                              SuccessMessage, Empty)
           /\ loading' = View(shownNext, ~detached /\ ~r.ok, loading, FALSE, FALSE)
           /\ loginPc' = IF r.ok THEN "delay" ELSE "idle"
           /\ detached' = (r.ok /\ (detached \/ ~shownNext))
    /\ inflight' = NoResp
    /\ UNCHANGED <<apiUrl, pathname, pushed, mounted, effectDeps, guardPush,
                   mountPc, queued, timers, ctxCall>>
    /\ UNCHANGED <<pageVars, pollVars, listVars>>

\* The 100 ms delay is over: the redirect timer is set, the handler ends.
LoginDelayDone ==
    /\ Settled
    /\ loginPc = "delay"
    /\ timers' = timers + 1
    /\ loading' = View(LoginShown, ~detached, loading, FALSE, FALSE)
    /\ loginPc' = "idle"
    /\ detached' = FALSE
    /\ UNCHANGED <<cookies, apiUrl, routeVars, sessVars, mountPc, queued,
                   inflight, error, success, ctxCall>>
    /\ UNCHANGED <<pageVars, pollVars, listVars>>

\* A 1500 ms timer fires: router.push('/deshboard'); router.refresh().
RedirectTimer ==
    /\ Settled
    /\ timers > 0
    /\ timers' = timers - 1
    /\ pushed' = "/deshboard"
    /\ UNCHANGED <<cookies, apiUrl, pathname, mounted, rendered, effectDeps,
                   guardPush, sessVars, mountPc, queued, loginPc, inflight,
                   detached, error, success, loading, ctxCall>>
    /\ UNCHANGED <<pageVars, pollVars, listVars>>

\* -------------------------------------------------- Header.handleLogout
\* The Logout button is rendered for an authenticated session only.
\* the handler without its deleteCookie('refreshToken')
SignOutJar_keepsRefresh(jar) ==
    deleteCookie(deleteCookie(jar, "accessToken"), "user")

\* The three deleteCookie calls of the handler.
SignOutJar(jar) ==
    deleteCookie(deleteCookie(deleteCookie(jar, "accessToken"),
                              "refreshToken"), "user")

HandleLogout ==
    /\ Settled
    /\ isAuthenticated
    /\ LET jar == SignOutJar(cookies)
           w == logout(jar)
       IN  /\ cookies' = w.cookies
           /\ isAuthenticated' = w.isAuthenticated
           /\ user' = w.user
    /\ pushed' = "/login"
    /\ Rerender(isAuthenticated', pathname)
    /\ UNCHANGED <<apiUrl, pathname, mounted, effectDeps, guardPush, mountPc,
                   queued, loginPc, inflight, timers, ctxCall>>
    /\ UNCHANGED <<pageVars, pollVars, listVars>>

\* ------------------------------------------- the context's consumers
\* Any consumer of useAuth() may call setAuth and logout.
CtxSetAuth(u) ==
    /\ Settled
    /\ isAuthenticated' = setAuth(u).isAuthenticated
    /\ user' = setAuth(u).user
    /\ Rerender(isAuthenticated', pathname)
    /\ ctxCall' = "setAuth"
    /\ UNCHANGED <<cookies, apiUrl, pathname, pushed, mounted, effectDeps,
                   guardPush, mountPc, queued, loginPc, inflight, timers>>
    /\ UNCHANGED <<pageVars, pollVars, listVars>>

CtxLogout ==
    /\ Settled
    /\ cookies' = logout(cookies).cookies
    /\ isAuthenticated' = logout(cookies).isAuthenticated
    /\ user' = logout(cookies).user
    /\ Rerender(isAuthenticated', pathname)
    /\ ctxCall' = IF ctxCall = "logoutA" THEN "logoutB" ELSE "logoutA"
    /\ UNCHANGED <<apiUrl, pathname, pushed, mounted, effectDeps, guardPush,
                   mountPc, queued, loginPc, inflight, timers>>
    /\ UNCHANGED <<pageVars, pollVars, listVars>>

\* ------------------------------------------------ Community page: handlers
\* createExam is called from a render whose exam startExam will close over.
RunCreateExam(st) ==
    LET r == createExam(st, cookies, apiUrl)
    IN  /\ ex' = r.state
        /\ exRun' = IF r.request
                    THEN [exRun EXCEPT !.createPc = "create", !.closure = ex.exam]
                    ELSE exRun

\* The mount effect: setMounted(true); if (isAuthenticated) createExam().
ExamMountEffect ==
    /\ Settled
    /\ ExamShown
    /\ ~ex.mounted
    /\ IF isAuthenticated
       THEN RunCreateExam([ex EXCEPT !.mounted = TRUE])
       ELSE /\ ex' = [ex EXCEPT !.mounted = TRUE]
            /\ exRun' = exRun
    /\ UNCHANGED <<appVars, srv, res, prof, pgRun, pollVars, listVars>>

\* 'Try Again' is clicked.
ExamTryAgain ==
    /\ Settled
    /\ ExamBody
    /\ TryAgainShown(ex)
    /\ exRun.createPc = "idle"
    /\ RunCreateExam(ex)
    /\ UNCHANGED <<appVars, srv, res, prof, pgRun, pollVars, listVars>>

\* 'Create New Exam' is clicked.
ExamCreateNew ==
    /\ Settled
    /\ ExamBody
    /\ CreateNewShown(ex)
    /\ exRun.createPc = "idle"
    /\ RunCreateExam(ex)
    /\ UNCHANGED <<appVars, srv, res, prof, pgRun, pollVars, listVars>>

\* createExam's finally block.
createExamEnd(st) == [st EXCEPT !.creating = FALSE]

\* EndCreate that puts the create request out again
EndCreate_retry(run) ==
    [run EXCEPT !.createPc = "create", !.closure = Null, !.startFor = NoId]

EndCreate(run) ==
    [run EXCEPT !.createPc = "idle", !.closure = Null, !.startFor = NoId]

\* The create request settles.  With an exam in the envelope the handler
\* goes on into startExam, whose request leaves in the same step.
CreateResponse ==
    /\ Settled
    /\ exRun.createPc = "create"
    /\ \E resp \in CreateResponses :
        /\ IF ~CallFailed(resp) /\ resp.data # NoData
           THEN LET r == startExam([ex EXCEPT !.exam = resp.data], apiUrl)
                IN  /\ srv' = srv
                    /\ IF r.request
                       THEN /\ ex' = Write(r.state)
                            /\ exRun' = [exRun EXCEPT !.createPc = "start",
                                                      !.startFor = resp.data.id]
                       ELSE /\ ex' = Write(createExamEnd(r.state))
                            /\ exRun' = EndCreate(exRun)
           ELSE /\ ex' = Write(createExamSettle(ex, resp))
                /\ exRun' = EndCreate(exRun)
                /\ srv' = srv
    /\ UNCHANGED <<appVars, res, prof, pgRun, pollVars, listVars>>

\* The start request settles; startExam and then createExam run to their end.
StartResponse ==
    /\ Settled
    /\ exRun.createPc = "start"
    /\ \E resp \in StartResponses(srv.issued) :
        /\ ex' = Write(createExamEnd(startExamSettle(ex, exRun.closure, resp)))
        /\ srv' = IF ~CallFailed(resp) /\ resp.data # NoData /\ resp.data.id # NoId
                  THEN [srv EXCEPT !.issued = @ \cup {resp.data.id}] ELSE srv
    /\ exRun' = EndCreate(exRun)
    /\ UNCHANGED <<appVars, res, prof, pgRun, pollVars, listVars>>

\* 'Submit Answer' of question q is pressed with answerText in its textarea.
\* The button is there with the questions and is disabled while the answer
\* is being submitted.
SubmitAnswer(q, answerText) ==
    /\ Settled
    /\ ExamBody
    /\ QuestionsShown(ex)
    /\ InList(q, ex.exam.questions)
    /\ ~ex.submitting[q]
    /\ exRun.sub[q] = NoId
    /\ exRun.clears + Cardinality({p \in Questions : exRun.sub[p] # NoId})
         < MaxPending
    /\ LET r == submitAnswer(ex, q, answerText, apiUrl)
       IN  /\ ex' = r.state
           /\ exRun' = IF r.request
                       THEN [exRun EXCEPT !.sub[q] = ex.userExamId]
                       ELSE exRun
    /\ UNCHANGED <<appVars, srv, res, prof, pgRun, pollVars, listVars>>

\* The submit request of question q settles.
SubmitResponse(q) ==
    /\ Settled
    /\ exRun.sub[q] # NoId
    /\ \E resp \in PlainResponses :
        /\ ex' = Write(submitAnswerSettle(ex, q, resp))
        /\ IF CallFailed(resp)
           THEN /\ exRun' = [exRun EXCEPT !.sub[q] = NoId]
                /\ srv' = srv
           ELSE /\ exRun' = [exRun EXCEPT !.sub[q] = NoId, !.clears = @ + 1]
                /\ srv' = srv
    /\ UNCHANGED <<appVars, res, prof, pgRun, pollVars, listVars>>

\* A 3000 ms timer fires: setSuccess('').
ClearSuccessTimer ==
    /\ Settled
    /\ exRun.clears > 0
    /\ exRun' = [exRun EXCEPT !.clears = @ - 1]
    /\ ex' = Write([ex EXCEPT !.success = Empty])
    /\ UNCHANGED <<appVars, srv, res, prof, pgRun, pollVars, listVars>>

\* 'Complete Exam' is pressed; the button is disabled while completing.
CompleteExam ==
    /\ Settled
    /\ ExamBody
    /\ QuestionsShown(ex)
    /\ ~ex.completing
    /\ exRun.comp = NoId
    /\ exRun.redirects < MaxPending
    /\ LET r == completeExam(ex, apiUrl)
       IN  /\ ex' = r.state
           /\ exRun' = IF r.request
                       THEN [exRun EXCEPT !.comp = ex.userExamId]
                       ELSE exRun
    /\ UNCHANGED <<appVars, srv, res, prof, pgRun, pollVars, listVars>>

\* The complete request settles.
CompleteResponse ==
    /\ Settled
    /\ exRun.comp # NoId
    /\ \E resp \in PlainResponses :
        /\ ex' = Write(completeExamSettle(ex, resp))
        /\ IF CallFailed(resp)
           THEN /\ exRun' = [exRun EXCEPT !.comp = NoId]
                /\ srv' = srv
           ELSE /\ exRun' = [exRun EXCEPT !.comp = NoId, !.redirects = @ + 1]
                /\ srv' = [srv EXCEPT !.completed = @ \cup {exRun.comp}]
    /\ UNCHANGED <<appVars, res, prof, pgRun, pollVars, listVars>>

\* A 2000 ms timer fires: router.push('/deshboard').
ExamRedirectTimer ==
    /\ Settled
    /\ exRun.redirects > 0
    /\ exRun' = [exRun EXCEPT !.redirects = @ - 1]
    /\ pushed' = "/deshboard"
    /\ UNCHANGED <<cookies, apiUrl, pathname, mounted, rendered, effectDeps,
                   guardPush, sessVars, mountPc, queued, loginVars, ctxCall>>
    /\ UNCHANGED <<ex, srv, res, prof, pgRun, pollVars, listVars>>

\* --------------------------------------------------- Results page: handlers
RunFetchResults(st) ==
    LET r == fetchResults(st, cookies, apiUrl)
    IN  /\ res' = r.state
        /\ pgRun' = IF r.request THEN [pgRun EXCEPT !.results = "fetching"]
                    ELSE pgRun

\* The mount effect: setMounted(true); if (isAuthenticated) fetchResults().
ResultsMountEffect ==
    /\ Settled
    /\ ResultsShown
    /\ ~res.mounted
    /\ IF isAuthenticated
       THEN RunFetchResults([res EXCEPT !.mounted = TRUE])
       ELSE /\ res' = [res EXCEPT !.mounted = TRUE]
            /\ pgRun' = pgRun
    /\ UNCHANGED <<appVars, ex, exRun, srv, prof, pollVars, listVars>>

\* 'Try Again' is clicked.
ResultsTryAgain ==
    /\ Settled
    /\ ResultsShown /\ res.mounted /\ isAuthenticated
    /\ Truthy(res.error) /\ ~res.loading
    /\ pgRun.results = "idle"
    /\ RunFetchResults(res)
    /\ UNCHANGED <<appVars, ex, exRun, srv, prof, pollVars, listVars>>

\* The results request settles.
ResultsResponse ==
    /\ Settled
    /\ pgRun.results = "fetching"
    /\ \E resp \in ResultsResponses :
        /\ res' = IF ResultsShown THEN fetchResultsSettle(res, resp) ELSE res
    /\ pgRun' = [pgRun EXCEPT !.results = "idle"]
    /\ UNCHANGED <<appVars, ex, exRun, srv, prof, pollVars, listVars>>

\* --------------------------------------------------- Profile page: handlers
\* The mount effect: loadProfile() up to fetchProfileData's fetch or return.
ProfileMountEffect ==
    /\ Settled
    /\ ProfileShown
    /\ ~prof.mounted
    /\ IF ProfileFetchIssued(cookies, apiUrl)
       THEN /\ prof' = [prof EXCEPT !.mounted = TRUE, !.loadingProfile = TRUE]
            /\ pgRun' = [pgRun EXCEPT !.profileLoad = "fetching"]
       ELSE /\ prof' = [prof EXCEPT !.mounted = TRUE, !.loadingProfile = FALSE]
            /\ pgRun' = pgRun
    /\ UNCHANGED <<appVars, ex, exRun, srv, res, pollVars, listVars>>

\* The mount effect's request settles: setLoadingProfile(false).
ProfileLoadResponse ==
    /\ Settled
    /\ pgRun.profileLoad = "fetching"
    /\ \E resp \in ProfileResponses :
        prof' = IF ProfileShown
                THEN [fetchProfileDataSettle(prof, resp)
                         EXCEPT !.loadingProfile = FALSE]
                ELSE prof
    /\ pgRun' = [pgRun EXCEPT !.profileLoad = "idle"]
    /\ UNCHANGED <<appVars, ex, exRun, srv, res, pollVars, listVars>>

\* The form is submitted; its button is disabled while loading.
ProfileSubmit ==
    /\ Settled
    /\ ProfileShown /\ prof.mounted
    /\ ~prof.loading
    /\ pgRun.profileSubmit = "idle"
    /\ Len(pgRun.profileTimers) < MaxPending
    /\ LET r == handleSubmit(prof, cookies, apiUrl, user)
       IN  /\ prof' = r.state
           /\ pgRun' = IF r.request
                       THEN [pgRun EXCEPT
                               !.profileSubmit = "posting",
                               !.closure =
                                   [existingAvatarUrl |-> prof.existingAvatarUrl,
                                    avatar |-> prof.avatar]]
                       ELSE pgRun
    /\ UNCHANGED <<appVars, ex, exRun, srv, res, pollVars, listVars>>

ProfileUpdatedMessage == Str("Profile updated successfully!")

\* The update settles.  After a success the handler calls fetchProfileData
\* again; when that returns at once it sets its timer and ends.
ProfileSubmitResponse ==
    /\ Settled
    /\ pgRun.profileSubmit = "posting"
    /\ \E resp \in PlainResponses :
        /\ IF CallFailed(resp)
           THEN /\ prof' = IF ProfileShown
                           THEN [Caught(prof, resp, "Failed to update profile")
                                    EXCEPT !.loading = FALSE]
                           ELSE prof
                /\ pgRun' = [pgRun EXCEPT !.profileSubmit = "idle"]
           ELSE IF ProfileFetchIssued(cookies, apiUrl)
           THEN /\ prof' = IF ProfileShown
                           THEN [prof EXCEPT !.success = ProfileUpdatedMessage]
                           ELSE prof
                /\ pgRun' = [pgRun EXCEPT !.profileSubmit = "refetching"]
           ELSE /\ prof' = IF ProfileShown
                           THEN [prof EXCEPT !.success = ProfileUpdatedMessage,
                                             !.loading = FALSE]
                           ELSE prof
                /\ pgRun' = [pgRun EXCEPT
                                !.profileSubmit = "idle",
                                !.profileTimers = Append(@, pgRun.closure)]
    /\ UNCHANGED <<appVars, ex, exRun, srv, res, pollVars, listVars>>

\* The handler's fetchProfileData settles: the timer is set, the handler ends.
ProfileRefetchResponse ==
    /\ Settled
    /\ pgRun.profileSubmit = "refetching"
    /\ \E resp \in ProfileResponses :
        prof' = IF ProfileShown
                THEN [fetchProfileDataSettle(prof, resp) EXCEPT !.loading = FALSE]
                ELSE prof
    /\ pgRun' = [pgRun EXCEPT !.profileSubmit = "idle",
                              !.profileTimers = Append(@, pgRun.closure)]
    /\ UNCHANGED <<appVars, ex, exRun, srv, res, pollVars, listVars>>

\* The 2000 ms timer set first fires.
ProfileTimer ==
    /\ Settled
    /\ pgRun.profileTimers # <<>>
    /\ pgRun' = [pgRun EXCEPT !.profileTimers = Tail(@)]
    /\ prof' = IF ProfileShown THEN cleanUp(prof, Head(pgRun.profileTimers))
               ELSE prof
    /\ UNCHANGED <<appVars, ex, exRun, srv, res, pollVars, listVars>>

\* A file is chosen in the avatar input.
ProfileAvatarChange(file) ==
    /\ Settled
    /\ ProfileShown /\ prof.mounted
    /\ prof' = handleAvatarChange(prof, file)
    /\ UNCHANGED <<appVars, ex, exRun, srv, res, pgRun, pollVars, listVars>>

\* ------------------------------------------------ the pages under the guard
PagePaths == {"/login", "/community", "/result", "/profile"}

InitPages ==
    \E a \in TokenValues, u \in {Empty, Stringify(Alice)}, url \in BOOLEAN,
       p \in PagePaths :
        Loaded([accessToken |-> a, refreshToken |-> Empty, user |-> u], url, p)

NextPages ==
    \/ GuardMountEffect
    \/ GuardEffect
    \/ AuthInitEffect
    \/ CommitQueued
    \/ NavCommit
    \/ \E name \in TokenNames : CookieExpire(name)
    \/ LoginSubmit
    \/ LoginResponse
    \/ LoginDelayDone
    \/ RedirectTimer
    \/ ExamMountEffect
    \/ ExamTryAgain
    \/ ExamCreateNew
    \/ CreateResponse
    \/ StartResponse
    \/ \E q \in Questions, t \in Texts : SubmitAnswer(q, t)
    \/ \E q \in Questions : SubmitResponse(q)
    \/ ClearSuccessTimer
    \/ CompleteExam
    \/ CompleteResponse
    \/ ExamRedirectTimer
    \/ ResultsMountEffect
    \/ ResultsTryAgain
    \/ ResultsResponse
    \/ ProfileMountEffect
    \/ ProfileLoadResponse
    \/ ProfileSubmit
    \/ ProfileSubmitResponse
    \/ ProfileRefetchResponse
    \/ ProfileTimer
    \/ \E file \in {"image", "other", "large"} : ProfileAvatarChange(file)

SpecPages == InitPages /\ [][NextPages]_vars

\* ---------------------------------------------------- dashboard chat panel
\* The message fetches and notification checks under way.
PollsUnderWay == Len(chat.fetching) + hdr.checking

\* 'Chat' is pressed on the card of user u (the user list is taken as
\* loaded): setSelectedUser, setChatOpen(true), and the effect of the
\* render that follows.
ChatOpen(u) ==
    /\ Settled
    /\ DashShown
    /\ PollsUnderWay < MaxPolls
    /\ <<chat.chatOpen, chat.selectedUser>> # <<TRUE, u>>
    /\ chat' = ChatEffect([chat EXCEPT !.chatOpen = TRUE, !.selectedUser = u],
                          apiUrl)
    /\ UNCHANGED <<appVars, pageVars, hdr, listVars>>

\* The panel's close button: onClose, and ChatBox unmounts.
ChatClose ==
    /\ Settled
    /\ DashShown
    /\ chat.chatOpen
    /\ chat' = ChatUnmount(chat)
    /\ UNCHANGED <<appVars, pageVars, hdr, listVars>>

\* The 3000 ms interval fires: fetchMessages() of the render that set it.
ChatTick ==
    /\ Settled
    /\ chat.interval # NoTimer
    /\ PollsUnderWay < MaxPolls
    /\ chat' = fetchMessages(chat, chat.interval, "tick", apiUrl)
    /\ UNCHANGED <<appVars, pageVars, hdr, listVars>>

\* One of the message fetches under way settles.
ChatFetchResponse ==
    /\ Settled
    /\ \E i \in 1..Len(chat.fetching), resp \in MessageResponses :
        chat' = fetchMessagesSettle(chat, i, resp)
    /\ UNCHANGED <<appVars, pageVars, hdr, listVars>>

\* The message form is submitted with the text given in its input.
ChatSend(message) ==
    /\ Settled
    /\ DashShown
    /\ chat.chatOpen
    /\ chat.posting = NoUser
    /\ chat' = sendMessage(chat, message, apiUrl)
    /\ UNCHANGED <<appVars, pageVars, hdr, listVars>>

\* The request of sendMessage settles.
ChatSendResponse ==
    /\ Settled
    /\ chat.posting # NoUser
    /\ PollsUnderWay < MaxPolls
    /\ \E resp \in PlainResponses :
        chat' = sendMessageSettle(chat, resp, apiUrl)
    /\ UNCHANGED <<appVars, pageVars, hdr, listVars>>

ChatPaths == {"/deshboard", "/profile"}

InitChat ==
    \E r \in TokenValues, u \in {Empty, Stringify(Alice)}, url \in BOOLEAN :
        Loaded([accessToken |-> Str("t0"), refreshToken |-> r, user |-> u],
               url, "/deshboard")

NextChat ==
    \/ GuardMountEffect
    \/ GuardEffect
    \/ AuthInitEffect
    \/ CommitQueued
    \/ \E p \in ChatPaths : Navigate(p)
    \/ NavCommit
    \/ \E p \in ChatPaths : PageLoad(p)
    \/ \E name \in TokenNames : CookieExpire(name)
    \/ \E u \in Receivers : ChatOpen(u)
    \/ ChatClose
    \/ ChatTick
    \/ ChatFetchResponse
    \/ \E message \in Texts : ChatSend(message)
    \/ ChatSendResponse

SpecChat == InitChat /\ [][NextChat]_vars

\* ---------------------------------------------------- Header notifications
\* Header's first effect: setMounted(true).
HeaderMountEffect ==
    /\ mountPc = "done"
    /\ ~hdr.mounted
    /\ hdr' = [hdr EXCEPT !.mounted = TRUE]
    /\ UNCHANGED <<appVars, pageVars, chat, listVars>>

\* The notification effect runs after a commit that changed its deps.
HeaderEffect ==
    /\ mountPc = "done"
    /\ HeaderEffectPending
    /\ (isAuthenticated /\ hdr.mounted) => PollsUnderWay < MaxPolls
    /\ hdr' = NotificationEffect(hdr, isAuthenticated, cookies, apiUrl)
    /\ UNCHANGED <<appVars, pageVars, chat, listVars>>

\* The 5000 ms interval fires: checkNotifications().
NotificationTick ==
    /\ mountPc = "done"
    /\ ~HeaderEffectPending
    /\ hdr.interval # NoTimer
    /\ PollsUnderWay < MaxPolls
    /\ hdr' = checkNotifications(hdr, "tick", cookies, apiUrl)
    /\ UNCHANGED <<appVars, pageVars, chat, listVars>>

\* One of the notification checks under way settles.
NotificationResponse ==
    /\ mountPc = "done"
    /\ ~HeaderEffectPending
    /\ hdr.checking > 0
    /\ \E resp \in NotificationResponses :
        hdr' = checkNotificationsSettle(hdr, resp)
    /\ UNCHANGED <<appVars, pageVars, chat, listVars>>

HeaderPaths == {"/login", "/deshboard"}

InitHeader ==
    \E a \in TokenValues, u \in {Empty, Stringify(Alice)}, url \in BOOLEAN,
       p \in HeaderPaths :
        Loaded([accessToken |-> a, refreshToken |-> Empty, user |-> u], url, p)

NextHeader ==
    \/ GuardMountEffect
    \/ GuardEffect
    \/ AuthInitEffect
    \/ CommitQueued
    \/ NavCommit
    \/ \E p \in HeaderPaths : PageLoad(p)
    \/ \E name \in TokenNames : CookieExpire(name)
    \/ LoginSubmit
    \/ LoginResponse
    \/ LoginDelayDone
    \/ RedirectTimer
    \/ HandleLogout
    \/ HeaderMountEffect
    \/ HeaderEffect
    \/ NotificationTick
    \/ NotificationResponse

SpecHeader == InitHeader /\ [][NextHeader]_vars

\* ------------------------------------------- the two polls side by side
\* The dashboard of a signed-in user: the header's notification poll and the
\* chat panel's message poll run together until the user signs out.
InitPoll ==
    \E url \in BOOLEAN :
        Loaded([accessToken |-> Str("t0"), refreshToken |-> Empty,
                user |-> Stringify(Alice)], url, "/deshboard")

NextPoll ==
    \/ GuardMountEffect
    \/ GuardEffect
    \/ AuthInitEffect
    \/ CommitQueued
    \/ NavCommit
    \/ HandleLogout
    \/ \E u \in Receivers : ChatOpen(u)
    \/ ChatClose
    \/ ChatTick
    \/ ChatFetchResponse
    \/ HeaderMountEffect
    \/ HeaderEffect
    \/ NotificationTick
    \/ NotificationResponse

SpecPoll == InitPoll /\ [][NextPoll]_vars

\* ------------------------------------------------- dashboard user list
\* The Dashboard's first commit: setMounted(true) and fetchUsers(), then the
\* debounce effect of the render that has mounted set.
DashMount ==
    /\ Settled
    /\ DashShown
    /\ ~dash.mounted
    /\ dash' = DebounceEffect([fetchUsers(dash, apiUrl) EXCEPT !.mounted = TRUE])
    /\ UNCHANGED <<appVars, pageVars, pollVars>>

\* The search box changes to q: setSearchQuery, and the debounce effect of
\* the render that follows.
DashType(q) ==
    /\ Settled
    /\ DashShown
    /\ dash.mounted
    /\ q # dash.searchQuery
    /\ dash' = DebounceEffect([dash EXCEPT !.searchQuery = q])
    /\ UNCHANGED <<appVars, pageVars, pollVars>>

\* 300 ms have passed since the debounce timer was set.
DashTimer ==
    /\ Settled
    /\ dash.timer.set
    /\ dash.issued < MaxRequests
    /\ dash' = DebounceFire(dash, apiUrl)
    /\ UNCHANGED <<appVars, pageVars, pollVars>>

\* One of the list and search requests under way settles.
DashListResponse ==
    /\ Settled
    /\ \E i \in 1..Len(dash.requests), resp \in UserResponses :
        dash' = fetchUsersSettle(dash, i, resp)
    /\ UNCHANGED <<appVars, pageVars, pollVars>>

\* Follow or Unfollow is pressed on the other user's card.
DashFollow(follow) ==
    /\ Settled
    /\ DashShown
    /\ dash.mounted
    /\ apiUrl
    /\ Len(dash.follows) < MaxPending
    /\ dash' = [dash EXCEPT !.follows =
                    Append(@, [follow |-> follow, query |-> dash.searchQuery])]
    /\ UNCHANGED <<appVars, pageVars, pollVars>>

\* The follow request under way settles.
DashFollowResponse ==
    /\ Settled
    /\ dash.follows # <<>>
    /\ dash.issued < MaxRequests
    /\ \E resp \in PlainResponses :
        dash' = handleFollowSettle(dash, resp, apiUrl)
    /\ UNCHANGED <<appVars, pageVars, pollVars>>

\* The dashboard of a signed-in user and its search box.
InitDash ==
    \E url \in BOOLEAN :
        Loaded([accessToken |-> Str("t0"), refreshToken |-> Empty,
                user |-> Stringify(Alice)], url, "/deshboard")

NextDash ==
    \/ GuardMountEffect
    \/ GuardEffect
    \/ AuthInitEffect
    \/ CommitQueued
    \/ DashMount
    \/ \E q \in Queries : DashType(q)
    \/ DashTimer
    \/ DashListResponse
    \/ \E follow \in BOOLEAN : DashFollow(follow)
    \/ DashFollowResponse

SpecDash == InitDash /\ [][NextDash]_vars

\* ------------------------------------------------------ specifications
\* The application.
Next ==
    \/ GuardMountEffect
    \/ GuardEffect
    \/ AuthInitEffect
    \/ CommitQueued
    \/ \E p \in Paths : Navigate(p)
    \/ NavCommit
    \/ \E p \in Paths : PageLoad(p)
    \/ \E name \in CookieNames : CookieExpire(name)
    \/ LoginSubmit
    \/ LoginResponse
    \/ LoginDelayDone
    \/ RedirectTimer
    \/ HandleLogout

Spec == Init /\ [][Next]_vars

\* The session context under arbitrary consumers.
NextCtx ==
    \/ GuardMountEffect
    \/ GuardEffect
    \/ AuthInitEffect
    \/ CommitQueued
    \/ NavCommit
    \/ \E name \in CookieNames : CookieExpire(name)
    \/ \E u \in Users \cup {Null} : CtxSetAuth(u)
    \/ CtxLogout

SpecCtx == Init /\ [][NextCtx]_vars

\* ----------------------------------------------------------- sanity
TypeOK ==
    /\ cookies["accessToken"] \in TokenValues \cup {Str("t1")}
    /\ cookies["refreshToken"] \in TokenValues \cup {Str("t2")}
    /\ cookies["user"] \in UserTexts
    /\ pathname \in Paths
    /\ pushed \in Paths \cup {NoPush}
    /\ isAuthenticated \in BOOLEAN
    /\ user \in Users \cup {Null}
    /\ mounted \in BOOLEAN
    /\ rendered \in {"null", "children"}
    /\ guardPush \in {NoPush, "/login", "/deshboard"}
    /\ mountPc \in {"guardMount", "guardEffect", "authInit", "commit", "done"}
    /\ loginPc \in {"idle", "fetching", "delay"}
    /\ inflight \in Responses \cup {NoResp}
    /\ timers \in 0..MaxTimers
    /\ rendered = GuardRender(mounted, isAuthenticated, pathname)
    /\ (loginPc # "idle" /\ ~detached) => LoginShown
    /\ ~LoginShown => error = Empty /\ success = Empty /\ ~loading

\* ================================================================ claims
\* the public allow-list and the auth-only paths as the specification names them
AllowList == {"/login", "/register", "/", "/landingpage"}

AuthOnly == {"/login", "/register"}

\* C1: after mount, an unauthenticated session on a path outside the public
\* allow-list is rendered nothing, and the guard's effect for that session
\* and path has pushed '/login'.
C1_AnonymousProtectedRedirects ==
    (mounted /\ ~isAuthenticated /\ pathname \notin AllowList)
        => /\ rendered = "null"
           /\ ~EffectPending => guardPush = "/login"

C1_Witness ==
    /\ mounted /\ ~isAuthenticated /\ pathname = "/profile"
    /\ ~EffectPending /\ guardPush = "/login" /\ pushed = "/login"
    /\ rendered = "null"

\* C2: after mount, an authenticated session on '/login' or '/register' is
\* never rendered the auth form, and the guard's effect for that session and
\* path has pushed '/deshboard'.
C2_AuthenticatedAuthRouteRedirects ==
    (mounted /\ isAuthenticated /\ pathname \in AuthOnly)
        => /\ rendered = "null"
           /\ ~EffectPending => guardPush = "/deshboard"

C2_Witness ==
    /\ mounted /\ isAuthenticated /\ pathname = "/register"
    /\ ~EffectPending /\ guardPush = "/deshboard" /\ rendered = "null"

\* C3: after mount, every other combination of session and path (whatever
\* the rest of the state is) renders the children, and the guard's effect for
\* it pushes nothing.
C3_OtherCombinationsRender ==
    (/\ mounted
     /\ ~(~isAuthenticated /\ pathname \notin AllowList)
     /\ ~(isAuthenticated /\ pathname \in AuthOnly))
        => /\ rendered = "children"
           /\ ~EffectPending => guardPush = NoPush

C3_Witness ==
    /\ mounted /\ isAuthenticated /\ pathname = "/landingpage"
    /\ ~EffectPending /\ guardPush = NoPush /\ rendered = "children"

\* C4: until the first mount has completed the guard renders nothing and no
\* navigation has been started, whatever the cookies and the path are; the
\* guard's effect has pushed only in states where it is mounted.
C4_NothingBeforeMount ==
    /\ ~mounted => rendered = "null" /\ guardPush = NoPush /\ pushed = NoPush
    /\ guardPush # NoPush => mounted

C4_Witness ==
    /\ ~mounted /\ effectDeps # NoDeps /\ pathname = "/profile"
    /\ cookies["accessToken"] = Empty

\* C5 (as claimed): the mount effect leaves the session authenticated iff a
\* token cookie (accessToken or refreshToken) and the user cookie are present
\* and the user cookie parses.
C5_InitIffTokenAndUser ==
    [][(mountPc = "authInit" /\ mountPc' = "commit")
        => (queued'.session.isAuthenticated
            <=> /\ Truthy(cookies["accessToken"]) \/ Truthy(cookies["refreshToken"])
                /\ Truthy(cookies["user"])
                /\ Parse(cookies["user"]) # SyntaxError)]_vars

\* C6 (as claimed): once the session is initialised, isAuthenticated is true
\* iff a token cookie and a parsed user object are present.
C6_SessionMatchesCookies ==
    mountPc = "done"
        => (isAuthenticated
            <=> /\ Truthy(cookies["accessToken"]) \/ Truthy(cookies["refreshToken"])
                /\ user # Null)

\* C7 (as claimed): the session is Anonymous or Authenticated: isAuthenticated
\* is true iff user is not null.
C7_TwoStates == isAuthenticated <=> user # Null

\* C8: the step of the submit handler that takes a 2xx JSON response with
\* user, accessToken and refreshToken leaves the three cookies holding the
\* returned tokens and a text that parses to the returned user, and the
\* session authenticated with that user; the end of the handler changes
\* neither the cookies nor the session.
FullSuccess(resp) ==
    /\ resp.kind = "json" /\ resp.status = "200" /\ resp.data # NoData
    /\ resp.data.user # Null
    /\ resp.data.accessToken # Empty /\ resp.data.refreshToken # Empty

HandlerStep(from, to) ==
    loginPc = from /\ loginPc' = to /\ mountPc = "done" /\ mountPc' = "done"

C8_LoginSuccessStores ==
    [][/\ (HandlerStep("fetching", "delay") /\ FullSuccess(inflight))
            => /\ cookies'["accessToken"] = inflight.data.accessToken
               /\ cookies'["refreshToken"] = inflight.data.refreshToken
               /\ Parse(cookies'["user"]) = inflight.data.user
               /\ isAuthenticated' /\ user' = inflight.data.user
       /\ (loginPc = "fetching" /\ mountPc' = "done" /\ FullSuccess(inflight))
            => loginPc' \in {"fetching", "delay"}
       /\ HandlerStep("delay", "idle")
            => UNCHANGED <<cookies, isAuthenticated, user>>]_vars

C8_Witness ==
    /\ loginPc = "idle" /\ timers = 1
    /\ cookies["accessToken"] = Str("t1") /\ cookies["refreshToken"] = Str("t2")
    /\ Parse(cookies["user"]) = Alice
    /\ isAuthenticated /\ user = Alice

\* C9: a login response that is not JSON by its content type, or is JSON with
\* a non-2xx status (and equally a rejected fetch or a JSON body that does not
\* parse), and a submit without a backend URL, write no cookie, leave the
\* session as it was, schedule no redirect and end the handler; the living
\* form shows a non-empty error: the backend's message or 'Login failed' for
\* a non-2xx envelope, and for a non-JSON body a message ending in the first
\* min(200, length) characters of the body.
Failed(resp) ==
    \/ resp.kind \in {"text", "reject", "badjson"}
    \/ resp.kind = "json" /\ resp.status # "200"

ExcerptOf(msg, body) ==
    LET n == IF Len(body) < 200 THEN Len(body) ELSE 200
    IN  /\ Len(msg) >= n
        /\ SubSeq(msg, Len(msg) - n + 1, Len(msg)) = SubSeq(body, 1, n)
        /\ Len(msg) - n = Len(NonJsonMessage(Resp("text", "0", Empty, Empty, NoData)))

C9_LoginFailureWritesNothing ==
    [][/\ (loginPc = "fetching" /\ loginPc' # "fetching" /\ mountPc' = "done"
           /\ Failed(inflight))
            => /\ UNCHANGED <<cookies, isAuthenticated, user, timers, pushed>>
               /\ loginPc' = "idle"
               /\ ~detached
                    => /\ error' # Empty /\ success' = Empty /\ ~loading'
                       /\ inflight.kind = "text"
                            => ExcerptOf(error', inflight.text)
                       /\ (inflight.kind = "json" /\ inflight.message # Empty)
                            => error' = inflight.message
                       /\ (inflight.kind = "json" /\ inflight.message = Empty)
                            => error' = Str("Login failed")
       /\ (~apiUrl /\ mountPc = "done" /\ mountPc' = "done")
            => /\ loginPc' = "idle" /\ timers' = 0 /\ success' = Empty
               /\ (error' # error /\ error' # Empty)
                    => /\ UNCHANGED <<cookies, isAuthenticated, user, pushed>>
                       /\ error' = NoUrlMessage /\ ~loading']_vars

C9_Witness ==
    /\ loginPc = "idle" /\ LoginShown /\ ~loading /\ timers = 0
    /\ error = Str("Login failed") /\ success = Empty
    /\ ~isAuthenticated /\ cookies["accessToken"] = Empty

\* C10: a call of the context's logout() leaves the accessToken, refreshToken
\* and user cookies exactly as they were, and leaves the session Anonymous.
C10_LogoutKeepsCookies ==
    [][(ctxCall' \in {"logoutA", "logoutB"} /\ ctxCall' # ctxCall)
        => /\ cookies' = cookies
           /\ ~isAuthenticated' /\ user' = Null]_vars

C10_Witness ==
    /\ ctxCall \in {"logoutA", "logoutB"}
    /\ ~isAuthenticated /\ user = Null
    /\ cookies["accessToken"] # Empty /\ cookies["refreshToken"] # Empty
    /\ cookies["user"] = Stringify(Alice)

\* C11: every step of the application that takes the session from
\* authenticated to anonymous (the header's sign-out, the one caller of
\* logout()) leaves none of the three cookies, the session Anonymous and a
\* navigation to '/login' started; and a cookie comes into existence only by
\* the login handler taking its response, so no cookie of the signed-out
\* session is there afterwards.
SignOutStep ==
    isAuthenticated /\ ~isAuthenticated' /\ mountPc = "done" /\ mountPc' = "done"

C11_SignOutDeletesCookies ==
    [][/\ SignOutStep
            => /\ \A n \in CookieNames : cookies'[n] = Empty
               /\ user' = Null
               /\ pushed' = "/login"
       /\ (\E n \in CookieNames : cookies'[n] # Empty /\ cookies'[n] # cookies[n])
            => loginPc = "fetching" /\ loginPc' # "fetching"]_vars

C11_Witness ==
    /\ mountPc = "done" /\ ~isAuthenticated /\ user = Null
    /\ \A n \in CookieNames : cookies[n] = Empty
    /\ pushed = "/login" /\ pathname = "/profile" /\ guardPush = NoPush
    /\ effectDeps[1] = TRUE

\* ------------------------------------------------ requests leaving a page
CreateSent == exRun.createPc = "idle" /\ exRun'.createPc = "create"

StartSent == exRun.createPc # "start" /\ exRun'.createPc = "start"

SubmitSent(q) == exRun.sub[q] = NoId /\ exRun'.sub[q] # NoId

CompleteSent == exRun.comp = NoId /\ exRun'.comp # NoId

ResultsSent == pgRun.results = "idle" /\ pgRun'.results = "fetching"

ProfileGetSent ==
    \/ pgRun.profileLoad = "idle" /\ pgRun'.profileLoad = "fetching"
    \/ pgRun.profileSubmit # "refetching" /\ pgRun'.profileSubmit = "refetching"

ProfilePostSent ==
    pgRun.profileSubmit = "idle" /\ pgRun'.profileSubmit = "posting"

LoginSent == loginPc = "idle" /\ loginPc' = "fetching"

Blank(text) == \A i \in 1..Len(text) : text[i] = " "

\* C12: wherever the page has come to, submitAnswer called for any question
\* with an empty or whitespace-only answer issues no request and sets the
\* error 'Please enter an answer before submitting', leaving everything else.
C12_BlankAnswerRejected ==
    \A q \in Questions, text \in Texts :
        Blank(text) =>
            LET r == submitAnswer(ex, q, text, apiUrl)
            IN  /\ ~r.request
                /\ r.state = [ex EXCEPT !.error = EnterAnswerMessage]

C12_Witness ==
    /\ InProgress(ex) /\ apiUrl
    /\ ex.error = EnterAnswerMessage
    /\ \A q \in Questions : exRun.sub[q] = NoId

\* C13: while no user-exam id is held, no complete request is issued, and
\* completeExam only sets the error 'No active exam found'.
C13_NoIdNoComplete ==
    /\ [](ex.userExamId = NoId =>
            LET r == completeExam(ex, apiUrl)
            IN  ~r.request /\ r.state = [ex EXCEPT !.error = NoActiveExamMessage])
    /\ [][ex.userExamId = NoId => ~CompleteSent]_vars

C13_Witness ==
    /\ QuestionsShown(ex) /\ ex.userExamId = NoId /\ apiUrl
    /\ ex.error = NoActiveExamMessage
    /\ exRun.comp = NoId

\* C14: a start request leaves only in the step that takes create's
\* successful response, for the id of the exam that response carried; a
\* submit or complete request carries the user-exam id held, which a
\* successful start returned; and while in progress every question that is
\* not being submitted accepts an answer, whatever was submitted before.
C14_SequentialFlow ==
    /\ [][/\ StartSent
               => /\ exRun.createPc = "create"
                  /\ exRun'.startFor \in ExamIds
                  /\ ExamShown' => ex'.exam # Null /\ ex'.exam.id = exRun'.startFor
          /\ \A q \in Questions :
               SubmitSent(q)
                 => exRun'.sub[q] = ex.userExamId /\ ex.userExamId \in srv.issued
          /\ CompleteSent
               => exRun'.comp = ex.userExamId /\ ex.userExamId \in srv.issued]_vars
    /\ []((InProgress(ex) /\ apiUrl)
            => \A q \in Questions :
                 submitAnswer(ex, q, Str("essay"), apiUrl).request)

C14_Witness ==
    /\ InProgress(ex)
    /\ exRun.sub["q2"] = ex.userExamId /\ ex.userExamId \in srv.issued
    /\ exRun.sub["q1"] = NoId

\* C15: whatever failing response a pending create, start, submit or
\* complete request gets, the handler settles with a non-empty error; for
\* create and start it leaves creating and starting false, so the error is
\* shown, with 'Try Again' when no user-exam id is held.
SettledWithError(s) ==
    /\ Truthy(s.error)
    /\ (~s.creating /\ ~s.starting) => ErrorShown(s)
    /\ (~s.creating /\ ~s.starting /\ s.userExamId = NoId) => TryAgainShown(s)

C15_FailureLeavesError ==
    /\ exRun.createPc = "create"
         => \A resp \in CreateResponses :
              CallFailed(resp)
                => LET s == createExamSettle(ex, resp)
                   IN  SettledWithError(s) /\ ~s.creating /\ ~s.starting
    /\ exRun.createPc = "start"
         => \A resp \in StartResponses(srv.issued) :
              CallFailed(resp)
                => LET s == createExamEnd(startExamSettle(ex, exRun.closure, resp))
                   IN  SettledWithError(s) /\ ~s.creating /\ ~s.starting
    /\ \A q \in Questions :
         exRun.sub[q] # NoId
           => \A resp \in PlainResponses :
                CallFailed(resp) => SettledWithError(submitAnswerSettle(ex, q, resp))
    /\ exRun.comp # NoId
         => \A resp \in PlainResponses :
              CallFailed(resp) => SettledWithError(completeExamSettle(ex, resp))

C15_Witness ==
    /\ ExamBody /\ exRun.createPc = "idle"
    /\ ex.error = Str("Failed to start exam")
    /\ TryAgainShown(ex)

\* C16 (as claimed): once a complete request has succeeded for a user-exam
\* id, no submit or complete request leaves for that id.
C16_DoneIsTerminal ==
    [][/\ \A q \in Questions :
            SubmitSent(q) => exRun'.sub[q] \notin srv.completed
       /\ CompleteSent => exRun'.comp \notin srv.completed]_vars

PanelOpenFor(st, r) == st.chatOpen /\ st.selectedUser = r /\ r # NoUser

\* C17: the panel's timer exists exactly while a panel is open, and is the
\* one fetching for its receiver.  The step that opens a panel or changes
\* its receiver calls fetchMessages once, for the new receiver; every tick
\* of the timer calls it for the receiver whose panel is open; apart from
\* the refresh after a message was sent no other call is made, so after a
\* close, a change of receiver or the dashboard's unmount the old timer
\* fetches nothing.  With a backend URL each call issues one request.
C17_ChatPolling ==
    /\ [](chat.interval = IF chat.chatOpen THEN chat.selectedUser ELSE NoTimer)
    /\ [][/\ (chat'.calls # chat.calls /\ chat'.origin # "send")
               => /\ PanelOpenFor(chat', chat'.receiver)
                  /\ chat'.origin = "tick" => PanelOpenFor(chat, chat'.receiver)
                  /\ chat'.origin = "effect"
                       => ~PanelOpenFor(chat, chat'.receiver)
                  /\ apiUrl => Fetching(chat', chat'.receiver)
                                  = Fetching(chat, chat'.receiver) + 1
          /\ (chat'.selectedUser # NoUser /\ ~PanelOpenFor(chat, chat'.selectedUser))
               => chat'.calls # chat.calls /\ chat'.origin = "effect"
          /\ \A r \in Receivers :
               Fetching(chat', r) > Fetching(chat, r)
                   => chat'.calls # chat.calls]_vars

C17_Witness ==
    /\ PanelOpenFor(chat, "carol")
    /\ chat.origin = "tick" /\ chat.receiver = "carol"
    /\ Fetching(chat, "carol") > 0 /\ Fetching(chat, "bob") > 0
    /\ chat.messages.receiver = "carol"

NotificationSent == hdr'.checking > hdr.checking

\* C18: once the header's effects have run, its timer exists exactly while
\* the header is mounted and the session Authenticated.  The effect run that
\* finds both calls checkNotifications at once, every tick calls it again,
\* and nothing else does; a call issues a request exactly when the backend
\* URL and a token exist.  So no request leaves while the session is
\* Anonymous, nor from the timer after a sign-out or the header's teardown.
C18_NotificationPolling ==
    /\ []((mountPc = "done" /\ ~HeaderEffectPending)
            => (hdr.interval # NoTimer <=> isAuthenticated /\ hdr.mounted))
    /\ [][/\ hdr'.calls # hdr.calls
               => /\ isAuthenticated /\ hdr.mounted
                  /\ hdr'.origin = "tick" => hdr.interval # NoTimer
                  /\ hdr'.origin = "effect" => hdr.deps # <<TRUE, TRUE>>
                  /\ NotificationSent <=> apiUrl /\ Truthy(Token(cookies))
          /\ (hdr'.deps = <<TRUE, TRUE>> /\ hdr.deps # <<TRUE, TRUE>>)
               => hdr'.calls # hdr.calls /\ hdr'.origin = "effect"
          /\ NotificationSent => hdr'.calls # hdr.calls]_vars

C18_Witness ==
    /\ mountPc = "done" /\ ~HeaderEffectPending
    /\ ~isAuthenticated /\ hdr.mounted /\ hdr.interval = NoTimer
    /\ hdr.origin = "tick" /\ hdr.checking > 0
    /\ pushed = "/login"

AnySent ==
    \/ CreateSent \/ StartSent \/ CompleteSent
    \/ \E q \in Questions : SubmitSent(q)
    \/ ResultsSent \/ ProfileGetSent \/ ProfilePostSent

\* C19 (as claimed): while neither token cookie exists, no request leaves
\* a page.
C19_NoTokenNoRequest ==
    [][~Truthy(Token(cookies)) => ~AnySent]_vars

\* C20: without a backend URL no request leaves the login, exam, results
\* or profile page; the login form's state changes only to the error naming
\* the missing URL; and createExam, submitAnswer, completeExam, fetchResults
\* and the profile's handleSubmit each end with a non-empty error.  No
\* user-exam id is ever held then, so submitAnswer and completeExam end in
\* their validation error, before their own test of the URL.
C20_NoUrlNoRequest ==
    /\ [][~apiUrl => /\ ~AnySent /\ ~LoginSent
                     /\ (LoginShown /\ LoginShown'
                         /\ <<error, success, loading>>' # <<error, success, loading>>)
                          => error' = NoUrlMessage /\ ~loading']_vars
    /\ [](~apiUrl =>
            /\ ex.userExamId = NoId /\ ~QuestionsShown(ex)
            /\ LET r == createExam(ex, cookies, apiUrl)
               IN  ~r.request /\ ErrorShown(r.state)
            /\ \A q \in Questions, text \in Texts :
                 LET r == submitAnswer(ex, q, text, apiUrl)
                 IN  ~r.request /\ Truthy(r.state.error)
            /\ LET r == completeExam(ex, apiUrl)
               IN  ~r.request /\ Truthy(r.state.error)
            /\ LET r == fetchResults(res, cookies, apiUrl)
               IN  ~r.request /\ Truthy(r.state.error) /\ ~r.state.loading
            /\ LET r == handleSubmit(prof, cookies, apiUrl, user)
               IN  ~r.request /\ Truthy(r.state.error) /\ ~r.state.loading)

C20_Witness ==
    /\ ~apiUrl /\ ExamBody
    /\ ex.error = ExamNoUrlMessage /\ TryAgainShown(ex)
    /\ exRun.createPc = "idle"

\* A step in which an exam request settles, or one of the page's timers fires.
ExamSettles ==
    \/ exRun.createPc # "idle" /\ exRun'.createPc # exRun.createPc
    \/ \E q \in Questions : exRun.sub[q] # NoId /\ exRun'.sub[q] = NoId
    \/ exRun.comp # NoId /\ exRun'.comp = NoId

ExamTimerFires ==
    exRun'.clears < exRun.clears \/ exRun'.redirects < exRun.redirects

\* C21: a step in which an exam request settles or a timer fires puts out no
\* create, submit-answer or complete request, and a start request only as the
\* continuation of the create that has just succeeded.  A create request
\* leaves only from the page's mount or while 'Try Again' or 'Create New
\* Exam' is on screen, a submit-answer or complete request only while the
\* questions with their buttons are.
C21_NoAutomaticRetry ==
    [][/\ (ExamSettles \/ ExamTimerFires)
           => /\ exRun'.createPc = "create" => exRun.createPc = "create"
              /\ \A q \in Questions : ~SubmitSent(q)
              /\ ~CompleteSent
       /\ CreateSent => \/ ~ex.mounted
                        \/ ExamBody /\ (TryAgainShown(ex) \/ CreateNewShown(ex))
       /\ StartSent => exRun.createPc = "create"
       /\ (CompleteSent \/ \E q \in Questions : SubmitSent(q))
           => ExamBody /\ QuestionsShown(ex)]_vars

C21_Witness ==
    /\ ExamBody /\ exRun.createPc = "idle"
    /\ ex.error = Str("Failed to create exam")
    /\ TryAgainShown(ex) /\ ex.exam = Null

\* C22: a call of fetchMessages or checkNotifications that gets as far as
\* its fetch adds a request to those under way, however many there are; and
\* the response to any request under way, if ok, puts its own payload into
\* the message list or the notification flag, whether or not the response
\* to a later request has been taken before it.
C22_PollsNotDeduplicated ==
    /\ \A r \in Receivers :
         Len(fetchMessages(chat, r, "tick", TRUE).fetching)
           = Len(chat.fetching) + 1
    /\ Truthy(Token(cookies))
         => checkNotifications(hdr, "tick", cookies, TRUE).checking
              = hdr.checking + 1
    /\ \A i \in 1..Len(chat.fetching), resp \in MessageResponses :
         (chat.fetching[i].live /\ ~CallFailed(resp))
           => fetchMessagesSettle(chat, i, resp).messages
                = MessageList(chat.fetching[i], resp)
    /\ \A resp \in NotificationResponses :
         (hdr.checking > 0 /\ ~CallFailed(resp))
           => checkNotificationsSettle(hdr, resp).hasNotification
                = HasUnread(resp)

\* The list on screen came with the response to a request that a later
\* request's response had overtaken, and a tick of the header's timer has
\* put out a second check beside the one under way.
C22_Witness ==
    /\ PanelOpenFor(chat, "bob")
    /\ chat.messages = [receiver |-> "bob", rows |-> TRUE, overtaken |-> TRUE]
    /\ chat.origin = "tick"
    /\ chat.fetching = <<>>
    /\ isAuthenticated /\ hdr.origin = "tick" /\ hdr.checking > 1

\* C23 as stated: the ok response to any message fetch or notification
\* check under way, whenever it arrives, is what the message list or the
\* notification flag holds afterwards.
C23_ResponseAlwaysApplied ==
    /\ \A i \in 1..Len(chat.fetching), resp \in MessageResponses :
         ~CallFailed(resp)
           => fetchMessagesSettle(chat, i, resp).messages.rows
                = (resp.data # NoData)
    /\ \A resp \in NotificationResponses :
         (hdr.checking > 0 /\ ~CallFailed(resp))
           => checkNotificationsSettle(hdr, resp).hasNotification
                = HasUnread(resp)

\* C23, amended: a step that clears a poll's interval leaves the requests
\* under way where they are.  After the sign-out has cleared the header's
\* interval, the ok response to a check still under way sets the flag.  The
\* ok response to a message fetch whose interval has been cleared by a change
\* of receiver replaces the list in the panel; the response to a fetch whose
\* ChatBox has been unmounted (panel closed, dashboard left) changes nothing.
C23_NoAbortOnCleanup ==
    /\ [](/\ (~isAuthenticated /\ hdr.interval = NoTimer /\ hdr.checking > 0)
              => \A resp \in NotificationResponses :
                   ~CallFailed(resp)
                     => checkNotificationsSettle(hdr, resp).hasNotification
                          = HasUnread(resp)
          /\ \A i \in 1..Len(chat.fetching), resp \in MessageResponses :
               LET entry == chat.fetching[i]
                   after == fetchMessagesSettle(chat, i, resp)
               IN  /\ (entry.live /\ entry.receiver # chat.interval
                         /\ ~CallFailed(resp))
                        => after.messages = MessageList(entry, resp)
                   /\ ~entry.live
                        => after = [chat EXCEPT !.fetching = RemoveAt(@, i)])
    /\ [][/\ (chat.interval # NoTimer /\ chat'.interval # chat.interval)
              => Len(chat'.fetching) >= Len(chat.fetching)
          /\ (hdr.interval # NoTimer /\ hdr'.interval = NoTimer)
              => hdr'.checking >= hdr.checking]_vars

C23_Witness ==
    /\ mountPc = "done" /\ ~HeaderEffectPending
    /\ ~isAuthenticated /\ hdr.interval = NoTimer
    /\ hdr.checking > 0 /\ ~hdr.hasNotification
    /\ Len(chat.fetching) > 0 /\ ~chat.fetching[1].live
    /\ chat.interval = NoTimer

\* The cookies from which the mount effect restores a session.
ValidCookies(jar) ==
    /\ Truthy(getCookie(jar, "accessToken"))
    /\ Truthy(getCookie(jar, "user"))
    /\ Parse(getCookie(jar, "user")) # SyntaxError

\* C24: while the first commit's effects are being flushed the guard has
\* pushed nothing; with a valid accessToken and user cookie the render that
\* ends the flush makes the guard mounted and the session Authenticated
\* together, so the guard's first decision pushes no '/login'; and whenever
\* the guard's effect does push '/login', the session it saw was Anonymous on
\* a protected path.
C24_NoLoginRedirectOnLoad ==
    /\ [](/\ mountPc # "done" => ~mounted /\ guardPush = NoPush /\ pushed = NoPush
          /\ (mountPc = "commit" /\ ValidCookies(cookies))
               => queued.mounted /\ queued.session.isAuthenticated)
    /\ [][/\ (mountPc = "commit" /\ mountPc' = "done" /\ ValidCookies(cookies))
               => /\ mounted' /\ isAuthenticated'
                  /\ GuardEffectPush(mounted', isAuthenticated', pathname')
                       # "/login"
          /\ (effectDeps' # effectDeps /\ guardPush' = "/login")
               => mounted /\ ~isAuthenticated /\ pathname \notin publicRoutes]_vars

C24_Witness ==
    /\ mountPc = "done" /\ ~EffectPending
    /\ pathname = "/profile" /\ ValidCookies(cookies)
    /\ isAuthenticated /\ rendered = "children"
    /\ guardPush = NoPush /\ pushed = NoPush
    /\ loginPc = "idle"

\* C25: whatever the session, the path the guard's effect pushes is one on
\* which the guard, for that same session, renders its children and pushes
\* nothing: '/login' when Anonymous, '/deshboard' when Authenticated.  When
\* the navigation the guard has started lands, with the session the guard
\* decided for, the children are rendered, and the run of the effect that
\* follows pushes nothing.
C25_GuardNeverLoops ==
    /\ [](\A auth \in BOOLEAN, path \in Paths :
            LET target == GuardEffectPush(TRUE, auth, path)
            IN  target # NoPush
                  => /\ target = IF auth THEN "/deshboard" ELSE "/login"
                     /\ GuardRender(TRUE, auth, target) = "children"
                     /\ GuardEffectPush(TRUE, auth, target) = NoPush)
    /\ [][/\ (guardPush # NoPush /\ pushed = guardPush
                /\ pathname' = pushed /\ pushed' = NoPush /\ mounted')
               => /\ rendered' = "children"
                  /\ GuardEffectPush(mounted', isAuthenticated', pathname')
                       = NoPush
          /\ (effectDeps' # effectDeps /\ guardPush # NoPush
                /\ pathname = guardPush /\ effectDeps[1] = isAuthenticated)
               => guardPush' = NoPush /\ pushed' = pushed]_vars

\* The guard's '/login' has landed, and its effect is about to run again.
C25_Witness ==
    /\ mountPc = "done" /\ EffectPending
    /\ pathname = "/login" /\ guardPush = "/login" /\ pushed = NoPush
    /\ ~isAuthenticated /\ rendered = "children"

\* C26: the login handler gets past its response to the success message and
\* the 100 ms delay before the redirect timer only for a response whose data
\* has a user and an accessToken, and leaves the session Authenticated with
\* a token cookie stored; the living form shows the success message only
\* then.
C26_SuccessOnlyWhenSignedIn ==
    [][/\ (loginPc = "fetching" /\ loginPc' = "delay")
            => /\ inflight.data # NoData
               /\ TruthyVal(inflight.data.user)
               /\ Truthy(inflight.data.accessToken)
               /\ isAuthenticated'
               /\ cookies'["accessToken"] = inflight.data.accessToken
       /\ (success # SuccessMessage /\ success' = SuccessMessage)
            => isAuthenticated' /\ Truthy(Token(cookies'))]_vars

\* C27: when a start request succeeds with a user-exam id, the exam the page
\* holds afterwards still has the id of the exam the create request before
\* it returned (and with the id the other fields of that response), now
\* with questions.
C27_ExamKeepsCreatedFields ==
    [][(/\ exRun.createPc = "start" /\ exRun'.createPc = "idle"
        /\ srv'.issued # srv.issued
        /\ ExamShown /\ ExamShown')
         => /\ ex'.exam # Null
            /\ ex'.exam.id = exRun.startFor]_vars

\* ------------------------------------------------------------------ C28
\* C28: on the dashboard, a change of the search box while the debounce timer
\* is pending replaces the timer and sends nothing; the response of the
\* request issued last, taken when no timer, list, search or follow request
\* is left, is the list for the content of the search box; and the list on
\* display never goes from the response of a request to the response of a
\* request issued before it for another query.
C28_ListFollowsSearchBox ==
    [][/\ (dash.mounted /\ dash.timer.set
              /\ dash'.searchQuery # dash.searchQuery)
            => /\ dash'.timer = [set |-> TRUE, query |-> dash'.searchQuery]
               /\ dash'.requests = dash.requests
       /\ (/\ dash'.mounted
           /\ dash'.users # dash.users
           /\ dash'.users.n = dash'.issued
           /\ ~dash'.timer.set
           /\ dash'.requests = <<>>
           /\ dash'.follows = <<>>)
            => dash'.users.target = TargetOf(dash'.searchQuery)
       /\ (dash'.mounted /\ dash'.users.n < dash.users.n)
            => dash'.users.target = dash.users.target]_vars

\* ------------------------------------------------------------------ C29
\* C29: when the 2-second timer of a profile update that uploaded an avatar
\* fires on the profile page and the profile has an avatar URL at that time,
\* the preview is left as it is: the avatar URL the re-fetch brought when it
\* brought one.
C29_CleanUpKeepsServerAvatar ==
    [][(/\ pgRun.profileTimers # <<>>
        /\ pgRun'.profileTimers = Tail(pgRun.profileTimers)
        /\ Head(pgRun.profileTimers).avatar
        /\ ProfileShown
        /\ prof.existingAvatarUrl # "null")
        => prof'.avatarPreview = prof.avatarPreview]_vars

\* ------------------------------------------------------------------ C30
\* The chat panel open for a receiver, nothing under way.
PanelFor(r) == [ChatInitial EXCEPT !.chatOpen = TRUE, !.selectedUser = r]

\* The dashboard with q in its search box and its debounce timer set.
ListFor(q) ==
    DebounceEffect([DashInitial EXCEPT !.mounted = TRUE, !.searchQuery = q])

\* fetchUsers and searchUsers, called by the debounce timer: without a
\* backend URL loading is left down; with one it is raised, and whatever the
\* request comes back with brings it down.
ListHandlersReset ==
    \A url \in BOOLEAN, q \in Queries, resp \in UserResponses :
        LET st == DebounceFire(ListFor(q), url)
        IN  IF url
            THEN st.loading /\ ~fetchUsersSettle(st, 1, resp).loading
            ELSE ~st.loading

\* The same of fetchMessages and loading, and of sendMessage and sending: a
\* blank message or no backend URL leaves sending down, a failed request
\* brings it down, and after an ok one it stays up until the fetchMessages
\* the handler awaits has settled.
PanelHandlersReset ==
    /\ \A url \in BOOLEAN, r \in Receivers, resp \in MessageResponses :
        LET st == fetchMessages(PanelFor(r), r, "tick", url)
        IN  IF url
            THEN st.loading /\ ~fetchMessagesSettle(st, 1, resp).loading
            ELSE ~st.loading
    /\ \A url \in BOOLEAN, message \in Texts, resp \in PlainResponses,
          after \in MessageResponses :
        LET st == sendMessage(PanelFor("bob"), message, url)
        IN  IF url /\ Trim(message) # Empty
            THEN /\ st.sending
                 /\ LET s2 == sendMessageSettle(st, resp, url)
                    IN  IF CallFailed(resp) THEN ~s2.sending
                        ELSE /\ s2.sending
                             /\ ~fetchMessagesSettle(s2, Len(s2.fetching),
                                                     after).sending
            ELSE ~st.sending

\* C30: on a mounted page no busy flag is raised unless its handler is under
\* way: loading of the login form, creating, starting, submitting[question]
\* and completing of the exam page, loading of the results page and of the
\* profile form, loading of the dashboard's list, loading and sending of the
\* chat panel; and the handlers of the list and of the panel bring their
\* flag down on every way out.
C30_BusyFlagsReset ==
    /\ (LoginShown /\ loginPc = "idle") => ~loading
    /\ (ExamShown /\ ex.mounted)
        => /\ exRun.createPc = "idle" => ~ex.creating /\ ~ex.starting
           /\ \A q \in Questions : exRun.sub[q] = NoId => ~ex.submitting[q]
           /\ exRun.comp = NoId => ~ex.completing
    /\ (ResultsShown /\ res.mounted /\ pgRun.results = "idle") => ~res.loading
    /\ (ProfileShown /\ pgRun.profileSubmit = "idle") => ~prof.loading
    /\ (dash.mounted /\ dash.requests = <<>>) => ~dash.loading
    /\ (chat.posting = NoUser
          /\ \A i \in 1..Len(chat.fetching) : ~chat.fetching[i].live)
        => ~chat.loading /\ ~chat.sending
    /\ ListHandlersReset
    /\ PanelHandlersReset

C30_Witness ==
    /\ ExamShown /\ ex.mounted
    /\ exRun.createPc = "idle" /\ exRun.comp = NoId
    /\ \A q \in Questions : exRun.sub[q] = NoId
    /\ ex.userExamId # NoId
    /\ ex.error = Str("Failed to complete exam")
    /\ ~ex.creating /\ ~ex.starting /\ ~ex.completing
    /\ \A q \in Questions : ~ex.submitting[q]

====
